---- MODULE Spec2Model ----
(***************************************************************************)
(* Redis bridge plugin (extensions/redis-bridge): the before_reply hook,   *)
(* its circuit breaker, its sliding-window rate limiter and the broker     *)
(* connection supervisor, as a state machine.                              *)
(*                                                                         *)
(* JavaScript runs one task at a time: everything a handler does between   *)
(* two awaits is one atomic step, and an await is a point where any other  *)
(* task may run.  Each action below is one such synchronous segment.       *)
(*                                                                         *)
(* Time is counted in ticks of the clock Date.now(); the configured        *)
(* durations are given in ticks.                                           *)
(***************************************************************************)
EXTENDS Integers, Sequences, FiniteSets, TLC

\* ---------------------------------------------------------------- bounds
MaxTime == 2        \* ticks the clock advances after Epoch
NumHooks == 2       \* before_reply invocations in flight at once
MaxDrops == 1       \* connection losses in one behaviour
MaxTextLen == 6     \* longest text handed to splitMessage on its own
MaxMaxLen == 4      \* largest maxLen handed to splitMessage on its own
MaxEntries == 2     \* entries the engine appends to bridge:outbound
MaxStarts == 2      \* start() calls on one listener in one behaviour

\* ------------------------------------------------- configuration (ticks)
threshold == 2                      \* opts.threshold
cooldownMs == 2                     \* opts.cooldownMs
WINDOW_MS == 1                      \* sliding window of the limiter
maxRequestsPerHour == 3             \* global limit
maxRequestsPerAgentPerHour == 2     \* per-agent limit
alertCooldownSeconds == 1           \* minimum distance of two alerts
timeoutSeconds == 1                 \* BRPOP timeout
REDIS_RECONNECT_WAIT_MS == 1        \* readiness polling window
REDIS_STARTUP_TIMEOUT_MS == 2       \* wait for the clients at the start of the service
MAX_MSG_LEN == 16                   \* longest chunk handed to the CLI (characters)
SUMMARY_PREVIEW_LEN == 1            \* characters of the body in the summary
TITLE_LINE_LEN == 2                 \* longest first line taken whole as the title
TITLE_CUT_LEN == 1                  \* characters of the text in a cut title
PUBLISH_THRESHOLD == 15             \* longer messages go to the content server
DEAD_LETTER_MAX_RETRIES == 5        \* delivery count above which an entry is dropped
READ_COUNT == 10                    \* COUNT of the consumer-group read

\* config.agents, config alertChatId
ConfigAgents == {"eng-1", "eng-2"}
alertChatId == "chat-1"

\* Date.now() when the plugin is registered: far from 0, so that no
\* duration reaches back to the zero timestamps the fields start with.
Epoch == WINDOW_MS + cooldownMs + alertCooldownSeconds + 1

\* The failures the breaker counts up to
MaxFailures == threshold + 1

\* ctx.agentId of an invocation: bridged, not bridged, or missing ("")
AgentIds == ConfigAgents \cup {"other", ""}

\* event.commandBody: a string is a sequence of words here; a value that is
\* no string (a host passing a number or an object) has str = FALSE.
Str(ws) == [str |-> TRUE, words |-> ws]
NonString == [str |-> FALSE, words |-> <<>>]
Bodies == { Str(<<"Bonjour">>), Str(<<"HEARTBEAT_OK">>),
            Str(<<"Please", "Read HEARTBEAT.md">>), NonString }

\* String.prototype.includes on the word sequence
includes(body, needle) == \E i \in 1..Len(body.words) : body.words[i] = needle

\* ------------------------------------------------------- config.ts
isEngineAgent_all(agentId) == TRUE

isEngineAgent(agentId) == agentId \in ConfigAgents

\* ------------------------------------------------- circuit-breaker.ts
\* A breaker is [failures, openedAt].
NewBreaker == [failures |-> 0, openedAt |-> 0]

getState_offByOne(b, t) ==
    IF b.failures <= threshold THEN "closed"
    ELSE IF t - b.openedAt >= cooldownMs THEN "half-open"
    ELSE "open"

getState(b, t) ==
    IF b.failures < threshold THEN "closed"
    ELSE IF t - b.openedAt >= cooldownMs THEN "half-open"
    ELSE "open"

recordSuccess_keepCount(b) == [b EXCEPT !.openedAt = 0]

recordSuccess(b) == [failures |-> 0, openedAt |-> 0]

recordFailure_double(b, t) ==
    LET f == b.failures + 2
    IN  [failures |-> f, openedAt |-> IF f >= threshold THEN t ELSE b.openedAt]

recordFailure_stampOnce(b, t) ==
    LET f == b.failures + 1
    IN  [failures |-> f, openedAt |-> IF f = threshold THEN t ELSE b.openedAt]

recordFailure(b, t) ==
    LET f == b.failures + 1
    IN  [failures |-> f, openedAt |-> IF f >= threshold THEN t ELSE b.openedAt]

isOpen_never(b, t) == FALSE

isOpen(b, t) == getState(b, t) = "open"

isHalfOpen(b, t) == getState(b, t) = "half-open"

\* --------------------------------------------------- rate-limiter.ts
\* A limiter is [globalWindow, agentWindows, lastAlertAt]; a window is the
\* sequence of the timestamps of its entries, oldest first.  alertCalls
\* counts the CLI invocations that sendAlert has made.
NewLimiter == [globalWindow |-> <<>>,
               agentWindows |-> [a \in AgentIds |-> <<>>],
               lastAlertAt |-> 0,
               alertCalls |-> 0]

RECURSIVE pruneWindow_inclusive(_, _)
pruneWindow_inclusive(window, t) ==
    IF Len(window) > 0 /\ window[1] <= t - WINDOW_MS
    THEN pruneWindow_inclusive(Tail(window), t)
    ELSE window

RECURSIVE pruneWindow(_, _)
pruneWindow(window, t) ==
    IF Len(window) > 0 /\ window[1] < t - WINDOW_MS
    THEN pruneWindow(Tail(window), t)
    ELSE window

\* check(agentId): prunes the global and the agent's window, then compares.
\* Returns the message (Null when allowed) and the limiter after pruning.
Msg(kind, arg) == [kind |-> kind, arg |-> arg]
Null == Msg("null", "")
AgentLimitMsg(agentId) == Msg("Rate limit: agent", agentId)
GlobalLimitMsg == Msg("Rate limit: le systeme", "")

checkPruned(lim, agentId, t) ==
    [lim EXCEPT !.globalWindow = pruneWindow(lim.globalWindow, t),
                !.agentWindows[agentId] = pruneWindow(lim.agentWindows[agentId], t)]

checkMsg_agentOnly(lim, agentId) ==
    IF Len(lim.agentWindows[agentId]) >= maxRequestsPerAgentPerHour
    THEN AgentLimitMsg(agentId)
    ELSE Null

checkMsg_globalFirst(lim, agentId) ==
    IF Len(lim.globalWindow) >= maxRequestsPerHour THEN GlobalLimitMsg
    ELSE IF Len(lim.agentWindows[agentId]) >= maxRequestsPerAgentPerHour
    THEN AgentLimitMsg(agentId)
    ELSE Null

checkMsg(lim, agentId) ==
    IF Len(lim.agentWindows[agentId]) >= maxRequestsPerAgentPerHour
    THEN AgentLimitMsg(agentId)
    ELSE IF Len(lim.globalWindow) >= maxRequestsPerHour THEN GlobalLimitMsg
    ELSE Null

record_globalOnly(lim, agentId, t) == [lim EXCEPT !.globalWindow = Append(@, t)]

record(lim, agentId, t) ==
    [lim EXCEPT !.globalWindow = Append(@, t),
                !.agentWindows[agentId] = Append(@, t)]

\* stats(): prunes every window (the counts it returns only go to the log)
stats(lim, t) ==
    [lim EXCEPT !.globalWindow = pruneWindow(@, t),
                !.agentWindows = [a \in AgentIds |-> pruneWindow(@[a], t)]]

\* sendAlert(reason, agentId, cliBinary, logger): without cliBinary (<<>>
\* is null) it returns at line 106, before the CLI invocation of line 112.
sendAlert(lim, t, cliBinary) ==
    IF alertChatId = "" THEN lim
    ELSE IF t - lim.lastAlertAt < alertCooldownSeconds THEN lim
    ELSE LET stamped == stats([lim EXCEPT !.lastAlertAt = t], t) IN
         IF cliBinary = <<>> THEN stamped
         ELSE [stamped EXCEPT !.alertCalls = @ + 1]

\* ------------------------------------------------------------ values

\* What the hook hands back to the host: undefined, {reply: {text, isError?}},
\* or an exception that leaves the hook.
Undefined == [kind |-> "undefined", text |-> Msg("", ""), isError |-> FALSE]
Reply(text, isError) == [kind |-> "reply", text |-> text, isError |-> isError]
Propagated(what) == [kind |-> "throw", text |-> Msg("exception", what), isError |-> FALSE]

HeartbeatReply == Reply(Msg("HEARTBEAT_OK", ""), FALSE)
UnavailableReply == Reply(Msg("Le moteur Effectual est temporairement indisponible", ""), TRUE)
ConnectionLostReply ==
    Reply(Msg("Le moteur Effectual est temporairement indisponible (connexion Redis perdue)", ""), TRUE)
TimeoutReply == Reply(Msg("The engine did not respond in time. Please try again.", ""), TRUE)
EngineErrorReply(err) == Reply(Msg("Engine error: ", err), TRUE)
CaughtReply(err) == Reply(Msg("Le moteur Effectual a rencontre une erreur: ", err), TRUE)

\* The strings the engine may push to a rendezvous key: a JSON object with a
\* text, a JSON object with an error, a string that is no JSON, JSON null.
RawObject(src, hasText, text, error) ==
    [form |-> "object", src |-> src, hasText |-> hasText, text |-> text, error |-> error]
RawValues ==
    { RawObject("{text:Salut}", TRUE, "Salut", ""),
      RawObject("{error:boom}", FALSE, "", "boom"),
      [form |-> "plain", src |-> "Salut en clair", hasText |-> FALSE, text |-> "", error |-> ""],
      [form |-> "null", src |-> "null", hasText |-> FALSE, text |-> "", error |-> ""] }

parseResponse_noError(raw) ==
    IF raw.form = "plain"
    THEN [isNull |-> FALSE, hasText |-> TRUE, text |-> raw.src, error |-> ""]
    ELSE IF raw.form = "null"
    THEN [isNull |-> TRUE, hasText |-> FALSE, text |-> "", error |-> ""]
    ELSE [isNull |-> FALSE, hasText |-> raw.hasText, text |-> raw.text, error |-> ""]

parseResponse_strict(raw) ==
    IF raw.form \in {"plain", "null"}
    THEN [isNull |-> TRUE, hasText |-> FALSE, text |-> "", error |-> ""]
    ELSE [isNull |-> FALSE, hasText |-> raw.hasText, text |-> raw.text, error |-> raw.error]

\* JSON.parse(raw) with the inner catch of the hook: the parsed object, the
\* object {text: raw} when raw is no JSON, null for the JSON text "null".
parseResponse(raw) ==
    IF raw.form = "plain"
    THEN [isNull |-> FALSE, hasText |-> TRUE, text |-> raw.src, error |-> ""]
    ELSE IF raw.form = "null"
    THEN [isNull |-> TRUE, hasText |-> FALSE, text |-> "", error |-> ""]
    ELSE [isNull |-> FALSE, hasText |-> raw.hasText, text |-> raw.text, error |-> raw.error]

\* ------------------------------------------------- listener.ts: texts
\* A text is the sequence of its characters.
Whitespace == {" ", "\n"}

Max(S) == CHOOSE x \in S : \A y \in S : y <= x
Min(a, b) == IF a <= b THEN a ELSE b

\* text.slice(from, to) and text.slice(from), indices counted from 0
slice(text, from, to) == SubSeq(text, from + 1, Min(to, Len(text)))
sliceFrom(text, from) == SubSeq(text, from + 1, Len(text))

\* text.lastIndexOf(pat, fromIndex): the last start of pat at or before
\* fromIndex, -1 when there is none
lastIndexOf_anywhere(text, pat, fromIndex) ==
    LET starts == {i \in 0..(Len(text) - Len(pat)) :
                        SubSeq(text, i + 1, i + Len(pat)) = pat}
    IN  IF starts = {} THEN -1 ELSE Max(starts)

lastIndexOf(text, pat, fromIndex) ==
    LET starts == {i \in 0..Min(fromIndex, Len(text) - Len(pat)) :
                        SubSeq(text, i + 1, i + Len(pat)) = pat}
    IN  IF starts = {} THEN -1 ELSE Max(starts)

RECURSIVE trimEnd(_)
trimEnd(text) ==
    IF text # <<>> /\ text[Len(text)] \in Whitespace
    THEN trimEnd(SubSeq(text, 1, Len(text) - 1))
    ELSE text

trimStart_one(text) == IF text # <<>> THEN Tail(text) ELSE text

RECURSIVE trimStart(_)
trimStart(text) ==
    IF text # <<>> /\ Head(text) \in Whitespace THEN trimStart(Tail(text)) ELSE text

\* The while loop of splitMessage: paragraph boundary, line break, hard cut
RECURSIVE splitLoop(_, _, _)
splitLoop(chunks, remaining, maxLen) ==
    IF Len(remaining) > maxLen
    THEN LET para == lastIndexOf(remaining, <<"\n", "\n">>, maxLen)
             line == lastIndexOf(remaining, <<"\n">>, maxLen)
         IN  IF 10 * para > 3 * maxLen
             THEN splitLoop(Append(chunks, trimEnd(slice(remaining, 0, para))),
                            trimStart(sliceFrom(remaining, para + 2)), maxLen)
             ELSE IF 10 * line > 3 * maxLen
             THEN splitLoop(Append(chunks, trimEnd(slice(remaining, 0, line))),
                            trimStart(sliceFrom(remaining, line + 1)), maxLen)
             ELSE splitLoop(Append(chunks, slice(remaining, 0, maxLen)),
                            sliceFrom(remaining, maxLen), maxLen)
    ELSE IF Len(remaining) > 0 THEN Append(chunks, remaining) ELSE chunks

splitMessage(text, maxLen) ==
    IF Len(text) <= maxLen THEN <<text>> ELSE splitLoop(<<>>, text, maxLen)

\* text.trim()
trimText(text) == trimEnd(trimStart(text))

Ellipsis == <<".", ".", ".">>

\* text.split("\n")
RECURSIVE splitLines(_, _)
splitLines(line, text) ==
    IF text = <<>> THEN <<line>>
    ELSE IF Head(text) = "\n" THEN <<line>> \o splitLines(<<>>, Tail(text))
    ELSE splitLines(Append(line, Head(text)), Tail(text))

\* extractTitle of a text without markdown heading: the first line that is
\* not blank when it is short, else the start of the text and "..."
extractTitle(text) ==
    LET lines == splitLines(<<>>, text)
        full == {i \in DOMAIN lines : Len(trimText(lines[i])) > 0}
        first == IF full = {} THEN 0 ELSE CHOOSE i \in full : \A j \in full : i <= j
    IN  IF first # 0 /\ Len(trimText(lines[first])) <= TITLE_LINE_LEN
        THEN trimText(lines[first])
        ELSE trimText(slice(text, 0, TITLE_CUT_LEN)) \o Ellipsis

\* The preview of buildTelegramSummary, of a body without markdown marks
preview(body) ==
    LET plain == trimText(body) IN
    IF Len(plain) > SUMMARY_PREVIEW_LEN
    THEN trimText(slice(plain, 0, SUMMARY_PREVIEW_LEN)) \o Ellipsis
    ELSE plain

\* The URL the content server gives back
PublicUrl == <<"U">>

\* `${title}\n\n${preview}\n\nLire la suite : ${url}`
buildTelegramSummary_body(title, body, url) == body

buildTelegramSummary(title, body, url) ==
    title \o <<"\n", "\n">> \o preview(body) \o <<"\n", "\n">> \o <<":">> \o url

\* ------------------------------------------------------------- state
Clients == {"redis", "redisBlocking"}

VARIABLES
    now,                \* Date.now()
    breaker,            \* the circuit breaker of this register() call
    limiter,            \* the rate limiter of this register() call
    status,             \* client.status of the two ioredis clients
    reconnectInFlight,  \* single-flight flag of ensureConnected
    hooks,              \* the before_reply invocations in flight
    inbound,            \* stream bridge:inbound, from the engine's read position on
    responses,          \* lists bridge:response:<correlationId>: the answers waiting
    blockq,             \* BRPOPs sent on redisBlocking, in the order sent
    drops,              \* connection losses so far
    last,               \* the invocation that has just returned, and how
    recorded,           \* history: the record() calls of the last WINDOW_MS, per agent
    consec,             \* history: recorded failures since the last success
    lastFailAt,         \* history: time of the most recent recorded failure
    tool,               \* the redis_bridge tool execution in flight
    toolLast,           \* what the tool execution that just ended gave back
    outbound,           \* stream bridge:outbound: the entries no read has delivered yet
    pel,                \* ids delivered to the consumer and not acknowledged
    nOut,               \* entries appended to bridge:outbound so far
    lis,                 \* the poll loop of the outbound listener
    ctl,                \* running and abortController of the outbound listener
    sm,                 \* a call of splitMessage: its arguments and its result
    publisher,          \* whether the configuration names a content publisher
    svc                 \* the start of the service, the start() calls and the loops they spawn

vars == <<now, breaker, limiter, status, reconnectInFlight, hooks, inbound,
          responses, blockq, drops, last, recorded, consec, lastFailAt,
          tool, toolLast, outbound, pel, nOut, lis, ctl, sm, publisher, svc>>

Slots == 1..NumHooks
Cids == 1..NumHooks

IdleHook == [pc |-> "idle", cid |-> 0, agent |-> "", body |-> Str(<<>>),
             deadline |-> 0, leader |-> FALSE, conn |-> {}, probe |-> FALSE,
             sent |-> 0, popped |-> 0, checked |-> Msg("unchecked", "")]

\* `last` describes the return of a hook in the state that follows it, and is
\* NoReturn in every other state.
NoReturn == [kind |-> "none", agent |-> "", body |-> Str(<<>>), reply |-> Undefined,
             pre |-> "closed", op |-> "none", sent |-> 0, popped |-> 0,
             probe |-> FALSE, checked |-> Msg("unchecked", "")]

\* The redis_bridge tool, not executing; `toolLast` is to the tool what
\* `last` is to the hook.
IdleTool == [pc |-> "idle", cid |-> 0, message |-> Str(<<>>), agent |-> "",
             channel |-> "", deadline |-> 0, sent |-> 0, popped |-> 0]
NoToolReturn == [kind |-> "none", text |-> Msg("", ""), sent |-> 0, popped |-> 0]

\* The poll loop of the listener: where it is (pc), the entries of the batch
\* still to come, the entry in processEntry, the chunks still to send (the
\* first is with the CLI), and what this run of processEntry has done so
\* far (att).  `done` describes the run of processEntry that just ended,
\* in the state that follows its end only.
NoEntry == [id |-> 0, fields |-> [none |-> ""]]
NoAttempt == [entry |-> NoEntry, att |-> <<>>, outcome |-> "none"]
Listening == [pc |-> "reading", batch |-> <<>>, cur |-> NoEntry, chunks |-> <<>>,
              att |-> <<>>, done |-> NoAttempt]

\* No call of splitMessage on its own
NoCall == [pc |-> "none", text |-> <<>>, maxLen |-> 1, chunks |-> <<>>]

\* pollLoop returned: the listener does nothing more
Stopped == [Listening EXCEPT !.pc = "stopped"]

\* running and abortController after start() (lines 513-514) and after
\* stop() (lines 529-531): abort() on the controller, then null
Started == [running |-> TRUE, abortController |-> "live"]
Halted == [running |-> FALSE, abortController |-> "null"]

\* The start of the service (index.ts lines 648-656) and what the start()
\* calls of the listener do, by position only: where start of the service
\* is (boot), the two waitForReady promises and their deadline, the start()
\* calls of the listener, the poll loops they spawned, and whether any
\* XREADGROUP was issued.  The entries a loop handles are followed in `lis`.
NoService == [boot |-> "none", waits |-> [c \in Clients |-> "none"], deadline |-> 0,
              call |-> 0, starts |-> <<>>, loops |-> <<>>, read |-> FALSE]

ListenerFrame == UNCHANGED <<outbound, pel, nOut, lis, ctl, sm, publisher, svc>>

\* A step of the hook or of the environment: the tool and the listener are
\* not involved
ToolFrame == toolLast' = NoToolReturn /\ UNCHANGED tool /\ ListenerFrame

\* register() has run (index.ts lines 345-377) and so has
\* createOutboundListener (listener.ts lines 347-353)
Constructed ==
    /\ now = Epoch
    /\ breaker = NewBreaker
    /\ limiter = NewLimiter
    /\ reconnectInFlight = FALSE
    /\ hooks = [h \in Slots |-> IdleHook]
    /\ inbound = <<>>
    /\ responses = [c \in Cids |-> <<>>]
    /\ blockq = <<>>
    /\ drops = 0
    /\ last = NoReturn
    /\ recorded = [a \in AgentIds |-> <<>>]
    /\ consec = 0
    /\ lastFailAt = 0
    /\ tool = IdleTool
    /\ toolLast = NoToolReturn
    /\ outbound = <<>>
    /\ pel = {}
    /\ nOut = 0
    /\ svc = NoService

\* The plugin is registered and its service started: start() resolves only
\* once both clients are ready (index.ts lines 640-648).
Registered ==
    /\ Constructed
    /\ status = [c \in Clients |-> "ready"]
    /\ lis = Listening
    /\ ctl = Started

Init == Registered /\ sm = NoCall /\ publisher = TRUE

\* The listener under either configuration of the publisher
ListenerInit == Registered /\ sm = NoCall /\ publisher \in BOOLEAN

isRedisReady_oneClient(st) == st["redis"] = "ready"

\* isRedisReady(): both clients' status, read afresh
isRedisReady(st) == st["redis"] = "ready" /\ st["redisBlocking"] = "ready"

\* ------------------------------------------------- before_reply hook
isHeartbeat_exact(body) == body.words = <<"HEARTBEAT_OK">>

isHeartbeat(body) == includes(body, "HEARTBEAT_OK") \/ includes(body, "Read HEARTBEAT.md")

\* The event of an invocation besides its commandBody: the host supplies
\* none of the optional fields (<<>> is undefined, <<v>> the value v).
HostEvent == [from |-> <<>>, channel |-> <<>>, accountId |-> <<>>, sessionKey |-> <<>>,
              senderName |-> <<>>, senderUsername |-> <<>>, senderId |-> <<>>,
              transcript |-> <<>>]

\* v ?? d
Coalesce(v, d) == IF v = <<>> THEN d ELSE v[1]

\* if (v) xaddArgs.push(k, v)
PushIf(k, v) == IF v = <<>> THEN <<>> ELSE <<k>>

\* Date.now().toString(): a decimal string, whose digits are not kept
TimestampString == "Date.now().toString()"

\* The entry the hook appends to bridge:inbound: xaddArgs, lines 567-583.
\* The optional fields pushed for the event are listed in `optional`.
InboundEntry(me) ==
    [correlationId |-> me.cid,
     message |-> me.body,
     from |-> Coalesce(HostEvent.from, "proxy"),
     agent |-> me.agent,
     channel |-> Coalesce(HostEvent.channel, "unknown"),
     accountId |-> Coalesce(HostEvent.accountId, me.agent),
     timestamp |-> TimestampString,
     sessionKey |-> Coalesce(HostEvent.sessionKey,
                             <<Coalesce(HostEvent.channel, "unknown"),
                               Coalesce(HostEvent.accountId, me.agent),
                               Coalesce(HostEvent.from, "anon")>>),
     protocolVersion |-> "1",
     optional |-> PushIf("senderName", HostEvent.senderName)
                  \o PushIf("senderUsername", HostEvent.senderUsername)
                  \o PushIf("senderId", HostEvent.senderId)
                  \o PushIf("transcript", HostEvent.transcript)]

\* The breaker after the operation a return path performs on it
BreakerAfter(op) ==
    IF op = "success" THEN recordSuccess(breaker)
    ELSE IF op = "failure" THEN recordFailure(breaker, now)
    ELSE breaker

\* The hook returns `reply` to the host, having called recordSuccess,
\* recordFailure or neither (op) on its way out.
Returned(me, reply, op) ==
    /\ op = "failure" => breaker.failures < MaxFailures
    /\ breaker' = BreakerAfter(op)
    /\ consec' = IF op = "success" THEN 0 ELSE IF op = "failure" THEN consec + 1 ELSE consec
    /\ lastFailAt' = IF op = "failure" THEN now ELSE lastFailAt
    /\ last' = [kind |-> "return", agent |-> me.agent, body |-> me.body, reply |-> reply,
                pre |-> getState(breaker, now), op |-> op,
                sent |-> me.sent, popped |-> me.popped, probe |-> me.probe,
                checked |-> me.checked]

Return(h, me, reply, op) ==
    /\ hooks' = [hooks EXCEPT ![h] = IdleHook]
    /\ Returned(me, reply, op)

\* The hook suspends at an await
Suspend(h, me) ==
    /\ hooks' = [hooks EXCEPT ![h] = me]
    /\ last' = NoReturn
    /\ UNCHANGED <<breaker, consec, lastFailAt>>

\* lines 562-584: build the entry and send XADD on the normal client
Forward(h, me) ==
    Suspend(h, [me EXCEPT !.pc = "xadd", !.sent = @ + 1, !.deadline = 0,
                          !.leader = FALSE, !.conn = {}])

EnsureConnected_noGuard(h, me) ==
    LET need == {c \in Clients :
                   status[c] \notin {"ready", "connecting", "reconnecting"}}
    IN  /\ reconnectInFlight' = TRUE
        /\ status' = [c \in Clients |-> IF c \in need THEN "connecting" ELSE status[c]]
        /\ IF need # {}
           THEN Suspend(h, [me EXCEPT !.pc = "reconnect", !.leader = TRUE, !.conn = need])
           ELSE Suspend(h, [me EXCEPT !.pc = "poll", !.leader = TRUE,
                                      !.deadline = now + REDIS_RECONNECT_WAIT_MS])

\* ensureConnected() up to its first await, called with isRedisReady() false
EnsureConnected(h, me) ==
    IF reconnectInFlight
    THEN /\ Suspend(h, [me EXCEPT !.pc = "poll", !.leader = FALSE,
                                  !.deadline = now + REDIS_RECONNECT_WAIT_MS])
         /\ UNCHANGED <<status, reconnectInFlight>>
    ELSE LET need == {c \in Clients :
                        status[c] \notin {"ready", "connecting", "reconnecting"}}
         IN  /\ reconnectInFlight' = TRUE
             /\ status' = [c \in Clients |-> IF c \in need THEN "connecting" ELSE status[c]]
             /\ IF need # {}
                THEN Suspend(h, [me EXCEPT !.pc = "reconnect", !.leader = TRUE, !.conn = need])
                ELSE Suspend(h, [me EXCEPT !.pc = "poll", !.leader = TRUE,
                                           !.deadline = now + REDIS_RECONNECT_WAIT_MS])

FreeCids_any == Cids

\* randomUUID(): an id no invocation, stream entry or rendezvous key holds
FreeCids ==
    {c \in Cids : /\ \A h \in Slots : hooks[h].cid # c
                  /\ tool.cid # c
                  /\ \A i \in 1..Len(inbound) : inbound[i].correlationId # c
                  /\ responses[c] = <<>>}
randomUUID == CHOOSE c \in FreeCids : \A d \in FreeCids : c <= d

\* Lines 519-584: breaker check, randomUUID, readiness, XADD
AfterRecord(h, me) ==
    IF isOpen(breaker, now)
    THEN /\ Return(h, me, UnavailableReply, "none")
         /\ UNCHANGED <<status, reconnectInFlight>>
    ELSE /\ FreeCids # {}
         /\ LET me2 == [me EXCEPT !.probe = isHalfOpen(breaker, now), !.cid = randomUUID]
            IN  IF ~isRedisReady(status)
                THEN EnsureConnected(h, me2)
                ELSE /\ Forward(h, me2)
                     /\ UNCHANGED <<status, reconnectInFlight>>

\* before_reply, from its entry to its first await (lines 499-584)
HookStart(h, agentId, body) ==
    /\ hooks[h].pc = "idle"
    /\ \A j \in Slots : j < h => hooks[j].pc # "idle"
    /\ UNCHANGED <<now, inbound, responses, blockq, drops>>
    /\ ToolFrame
    /\ LET me0 == [IdleHook EXCEPT !.agent = agentId]
           \* line 505: the first read of event.commandBody
           me == [me0 EXCEPT !.body = body]
       IN
       IF agentId = "" \/ ~isEngineAgent(agentId)
       THEN /\ Return(h, me0, Undefined, "none")
            /\ UNCHANGED <<limiter, recorded, status, reconnectInFlight>>
       ELSE IF ~body.str
       THEN \* body.includes is not a function: thrown before the try
            /\ Return(h, me, Propagated("TypeError"), "none")
            /\ UNCHANGED <<limiter, recorded, status, reconnectInFlight>>
       ELSE IF isHeartbeat(body)
       THEN /\ Return(h, me, HeartbeatReply, "none")
            /\ UNCHANGED <<limiter, recorded, status, reconnectInFlight>>
       ELSE
       LET pruned == checkPruned(limiter, agentId, now)
           rateLimitMsg == checkMsg(pruned, agentId)
           me1 == [me EXCEPT !.checked = rateLimitMsg]
       IN
       IF rateLimitMsg # Null
       THEN /\ limiter' = sendAlert(stats(pruned, now), now, <<>>)
            /\ Return(h, me1, Reply(rateLimitMsg, TRUE), "none")
            /\ UNCHANGED <<recorded, status, reconnectInFlight>>
       ELSE
       /\ limiter' = record(pruned, agentId, now)
       /\ recorded' = [recorded EXCEPT ![agentId] = Append(@, now)]
       /\ AfterRecord(h, me1)

Frame == UNCHANGED <<now, drops, limiter, recorded>> /\ ToolFrame

\* ensureConnected: the connect() promises have settled; enter the poll loop
ConnectSettled(h) ==
    LET me == hooks[h] IN
    /\ me.pc = "reconnect"
    /\ \A c \in me.conn : status[c] # "connecting"
    /\ Frame /\ UNCHANGED <<status, inbound, responses, blockq>>
    /\ IF isRedisReady(status)
       THEN /\ reconnectInFlight' = FALSE
            /\ Forward(h, me)
       ELSE /\ UNCHANGED reconnectInFlight
            /\ Suspend(h, [me EXCEPT !.pc = "poll",
                                     !.deadline = now + REDIS_RECONNECT_WAIT_MS])

\* ensureConnected: a poll that ends the wait loop, and the hook's lines 543-560
PollDone(h) ==
    LET me == hooks[h] IN
    /\ me.pc = "poll"
    /\ isRedisReady(status) \/ now >= me.deadline
    /\ Frame /\ UNCHANGED <<status, inbound, responses, blockq>>
    /\ reconnectInFlight' = IF me.leader THEN FALSE ELSE reconnectInFlight
    /\ IF isRedisReady(status)
       THEN Forward(h, me)
       ELSE Return(h, me, ConnectionLostReply, "failure")

\* The blocking client serves one BRPOP at a time, in the order sent: the
\* timeout of a BRPOP runs from the moment the server starts on it.
Dequeue(q, h) == SelectSeq(q, LAMBDA x : x # h)
StartHead(hs, q) ==
    IF q = <<>> THEN hs
    ELSE [hs EXCEPT ![Head(q)].deadline = IF @ = 0 THEN now + timeoutSeconds ELSE @]

\* XADD resolved: line 586 sends BRPOP on the blocking client
XaddOk(h) ==
    LET me == hooks[h]
        q == Append(blockq, h)
    IN
    /\ me.pc = "xadd"
    /\ Frame /\ UNCHANGED <<status, reconnectInFlight, responses>>
    /\ inbound' = Append(inbound, InboundEntry(me))
    /\ blockq' = q
    /\ hooks' = StartHead([hooks EXCEPT ![h] = [me EXCEPT !.pc = "brpop", !.popped = @ + 1]], q)
    /\ last' = NoReturn
    /\ UNCHANGED <<breaker, consec, lastFailAt>>

\* XADD rejected: caught at line 618
XaddFail(h) ==
    LET me == hooks[h] IN
    /\ me.pc = "xadd"
    /\ Frame /\ UNCHANGED <<status, reconnectInFlight, inbound, responses, blockq>>
    /\ Return(h, me, CaughtReply("xadd"), "failure")

\* A hook whose BRPOP has ended returns; the blocking client turns to the next
Leave(h, me, reply, op) ==
    LET q == Dequeue(blockq, h) IN
    /\ blockq' = q
    /\ hooks' = StartHead([hooks EXCEPT ![h] = IdleHook], q)
    /\ Returned(me, reply, op)

\* BRPOP returned [key, raw]: lines 599-617.  The string the engine pushed
\* is any of RawValues; which one is settled here, where it is first read.
BrpopValue(h, raw) ==
    LET me == hooks[h]
        key == me.cid
        parsed == parseResponse(raw)
    IN
    /\ me.pc = "brpop"
    /\ blockq # <<>> /\ Head(blockq) = h
    /\ responses[key] # <<>>
    /\ Frame /\ UNCHANGED <<status, reconnectInFlight, inbound>>
    /\ responses' = [responses EXCEPT ![key] = SubSeq(@, 1, Len(@) - 1)]
    /\ IF parsed.isNull
       THEN \* parsed.error of null: TypeError, caught at line 618
            Leave(h, me, CaughtReply("TypeError"), "failure")
       ELSE IF parsed.error # ""
       THEN Leave(h, me, EngineErrorReply(parsed.error), "none")
       ELSE Leave(h, me, Reply(Msg("text", IF parsed.hasText THEN parsed.text ELSE raw.src),
                               FALSE), "success")

\* BRPOP returned null after timeoutSeconds: lines 588-597
BrpopTimeout(h) ==
    LET me == hooks[h] IN
    /\ me.pc = "brpop"
    /\ blockq # <<>> /\ Head(blockq) = h
    /\ responses[me.cid] = <<>>
    /\ now >= me.deadline
    /\ Frame /\ UNCHANGED <<status, reconnectInFlight, inbound, responses>>
    /\ Leave(h, me, TimeoutReply, "failure")

\* BRPOP rejected: caught at line 618
BrpopFail(h) ==
    LET me == hooks[h] IN
    /\ me.pc = "brpop"
    /\ Frame /\ UNCHANGED <<status, reconnectInFlight, inbound, responses>>
    /\ Leave(h, me, CaughtReply("brpop"), "failure")

\* ------------------------------------------------- redis_bridge tool
\* params.message of an execution: a text, the empty string, blanks only,
\* or no message at all (<<>>)
ToolParams == { <<Str(<<"Bonjour">>)>>, <<Str(<<>>)>>, <<Str(<<" ">>)>>, <<>> }

trim_keep(body) == body

\* String.prototype.trim on the word sequence
trim(body) == Str(SelectSeq(body.words, LAMBDA w : w # " "))

\* The entry the tool appends to bridge:inbound (tools.ts lines 40-49)
ToolEntry(t) ==
    [correlationId |-> t.cid,
     message |-> t.message,
     from |-> "proxy",
     agent |-> t.agent,
     channel |-> t.channel,
     timestamp |-> TimestampString]

ToolThrew(what) == [kind |-> "throw", text |-> what, sent |-> tool.sent, popped |-> tool.popped]

HookFrame_success ==
    /\ last' = NoReturn
    /\ ListenerFrame
    /\ breaker' = recordSuccess(breaker)
    /\ UNCHANGED <<now, limiter, status, reconnectInFlight, hooks, blockq,
                   drops, recorded, consec, lastFailAt>>

\* The steps of the tool leave the hook, its breaker, its limiter and the
\* clients alone
HookFrame ==
    /\ last' = NoReturn
    /\ ListenerFrame
    /\ UNCHANGED <<now, breaker, limiter, status, reconnectInFlight, hooks, blockq,
                   drops, recorded, consec, lastFailAt>>

\* execute(): from its entry to the await of redis.xadd (lines 30-49); the
\* factory hands the tool to bridged agents only (index.ts lines 484-488)
ToolExecute(agentId, param) ==
    LET message == Coalesce(param, Str(<<>>)) IN
    /\ tool.pc = "idle"
    /\ isEngineAgent(agentId)
    /\ HookFrame /\ UNCHANGED <<inbound, responses>>
    /\ IF trim(message).words = <<>>
       THEN /\ toolLast' = [kind |-> "throw", text |-> Msg("message is required", ""),
                            sent |-> 0, popped |-> 0]
            /\ UNCHANGED tool
       ELSE /\ FreeCids # {}
            /\ tool' = [pc |-> "xadd", cid |-> randomUUID, message |-> message,
                        agent |-> agentId, channel |-> "unknown", deadline |-> 0,
                        sent |-> 1, popped |-> 0]
            /\ toolLast' = NoToolReturn

\* redis.xadd resolved: line 52 sends BRPOP, on the same client
ToolXaddOk ==
    /\ tool.pc = "xadd"
    /\ HookFrame /\ UNCHANGED responses
    /\ inbound' = Append(inbound, ToolEntry(tool))
    /\ tool' = [tool EXCEPT !.pc = "brpop", !.popped = @ + 1,
                            !.deadline = now + timeoutSeconds]
    /\ toolLast' = NoToolReturn

\* redis.xadd rejected: the exception leaves execute
ToolXaddFail ==
    /\ tool.pc = "xadd"
    /\ HookFrame /\ UNCHANGED <<inbound, responses>>
    /\ toolLast' = ToolThrew(Msg("exception", "xadd"))
    /\ tool' = IdleTool

\* BRPOP returned [key, raw]: lines 59-74
ToolBrpopValue(raw) ==
    LET parsed == parseResponse(raw) IN
    /\ tool.pc = "brpop"
    /\ responses[tool.cid] # <<>>
    /\ HookFrame /\ UNCHANGED inbound
    /\ responses' = [responses EXCEPT ![tool.cid] = SubSeq(@, 1, Len(@) - 1)]
    /\ tool' = IdleTool
    /\ toolLast' =
         IF parsed.isNull THEN ToolThrew(Msg("exception", "TypeError"))
         ELSE IF parsed.error # "" THEN ToolThrew(Msg("Engine error: ", parsed.error))
         ELSE [kind |-> "content",
               text |-> Msg("text", IF parsed.hasText THEN parsed.text ELSE raw.src),
               sent |-> tool.sent, popped |-> tool.popped]

\* BRPOP returned null after timeoutSeconds: lines 54-56
ToolBrpopTimeout ==
    /\ tool.pc = "brpop"
    /\ responses[tool.cid] = <<>>
    /\ now >= tool.deadline
    /\ HookFrame /\ UNCHANGED <<inbound, responses>>
    /\ toolLast' = ToolThrew(Msg("Engine response timed out", ""))
    /\ tool' = IdleTool

\* BRPOP rejected: the exception leaves execute
ToolBrpopFail ==
    /\ tool.pc = "brpop"
    /\ HookFrame /\ UNCHANGED <<inbound, responses>>
    /\ toolLast' = ToolThrew(Msg("exception", "brpop"))
    /\ tool' = IdleTool

\* ------------------------------------------------- outbound listener
\* The steps of the listener leave the hook and the tool alone
BridgeFrame ==
    /\ last' = NoReturn
    /\ toolLast' = NoToolReturn
    /\ UNCHANGED <<now, breaker, limiter, status, reconnectInFlight, hooks, inbound,
                   responses, blockq, drops, recorded, consec, lastFailAt, tool, svc>>

\* A step of the worker or of the engine: running and abortController stay
WorkerFrame == UNCHANGED <<ctl, sm, publisher>> /\ BridgeFrame

\* abortController?.signal.aborted (line 472)
aborted == ctl.abortController # "null" /\ ctl.abortController = "aborted"

\* The next turn of while (running) (line 458)
Turn == IF ctl.running THEN Listening ELSE Stopped

\* The field lists the engine appends: well-formed (short; long, with an
\* accountId; short, with an empty accountId), and malformed (no message, empty to, no channel)
ShortText == <<"a", "b">>
LongText == [i \in 1..(2 * MAX_MSG_LEN + 2) |-> "a"]
OutFields ==
    { [message |-> ShortText, to |-> "u1", channel |-> "telegram"],
      [message |-> LongText, to |-> "u1", channel |-> "telegram", accountId |-> "eff"],
      [message |-> ShortText, to |-> "u1", channel |-> "telegram", accountId |-> ""],
      [to |-> "u1", channel |-> "telegram"],
      [message |-> ShortText, to |-> "", channel |-> "telegram"],
      [message |-> ShortText, to |-> "u1"] }

\* data[k] of processEntry, and !data[k]: <<>> is undefined
Field(fields, k) == IF k \in DOMAIN fields THEN <<fields[k]>> ELSE <<>>
falsy(v) == v = <<>> \/ Len(v[1]) = 0

malformed_messageOnly(fields) == falsy(Field(fields, "message"))

malformed(fields) ==
    \/ falsy(Field(fields, "message"))
    \/ falsy(Field(fields, "to"))
    \/ falsy(Field(fields, "channel"))

\* The replies of XPENDING <id> <id> 1: an error, no detail, or the detail
\* of the entry with its delivery count
XpendingReplies ==
    { [kind |-> "throw", count |-> 0], [kind |-> "empty", count |-> 0] }
    \cup { [kind |-> "detail", count |-> c] : c \in {1, DEAD_LETTER_MAX_RETRIES,
                                                     DEAD_LETTER_MAX_RETRIES + 1} }

\* What a run of processEntry does, as it is noted in att
Did(op, arg) == [op |-> op, arg |-> arg]
CliArgs_noAccount(entry, chunk) ==
    [channel |-> entry.fields.channel, target |-> entry.fields.to, message |-> chunk,
     account |-> <<>>]

CliArgs(entry, chunk) ==
    [channel |-> entry.fields.channel, target |-> entry.fields.to, message |-> chunk,
     account |-> IF falsy(Field(entry.fields, "accountId")) THEN <<>>
                 ELSE <<entry.fields.accountId>>]

\* The for loop of pollLoop comes to the entries `batch`: with none left it
\* issues the next XREADGROUP, else it calls processEntry on the first, which
\* runs to its first await (lines 372-388)
Begin(batch) ==
    IF batch = <<>> THEN Turn
    ELSE LET entry == Head(batch) IN
         IF aborted THEN Stopped
         ELSE IF malformed(entry.fields)
         THEN [pc |-> "ackMalformed", batch |-> Tail(batch), cur |-> entry, chunks |-> <<>>,
               att |-> <<Did("warn", "Skipping malformed"), Did("xack", entry.id)>>,
               done |-> NoAttempt]
         ELSE [pc |-> "xpending", batch |-> Tail(batch), cur |-> entry, chunks |-> <<>>,
               att |-> <<Did("xpending", entry.id)>>,
               done |-> NoAttempt]

\* processEntry returned: the loop goes on with the rest of the batch
Returns(att) ==
    [Begin(lis.batch) EXCEPT !.done = [entry |-> lis.cur, att |-> att,
                                       outcome |-> "returned"]]

Throws_dies(att) ==
    [pc |-> "stopped", batch |-> <<>>, cur |-> NoEntry, chunks |-> <<>>, att |-> <<>>,
     done |-> [entry |-> lis.cur, att |-> att, outcome |-> "threw"]]

\* processEntry threw: caught in pollLoop (line 478), which waits before it
\* reads again; the rest of the batch is not processed
Throws(att) ==
    [pc |-> IF ctl.running THEN "backoff" ELSE "stopped",
     batch |-> <<>>, cur |-> NoEntry, chunks |-> <<>>, att |-> <<>>,
     done |-> [entry |-> lis.cur, att |-> att, outcome |-> "threw"]]

\* The engine appends an entry to bridge:outbound
EnginePublish(fields) ==
    /\ nOut < MaxEntries
    /\ nOut' = nOut + 1
    /\ outbound' = Append(outbound, [id |-> nOut + 1, fields |-> fields])
    /\ UNCHANGED <<pel, lis>>
    /\ WorkerFrame

\* XREADGROUP ... COUNT 10 ... ">" returned entries (lines 459-474)
ReadBatch ==
    LET n == Min(READ_COUNT, Len(outbound))
        batch == SubSeq(outbound, 1, n)
    IN
    /\ lis.pc = "reading"
    /\ outbound # <<>>
    /\ outbound' = SubSeq(outbound, n + 1, Len(outbound))
    /\ pel' = pel \cup {batch[i].id : i \in 1..n}
    /\ lis' = Begin(batch)
    /\ UNCHANGED nOut
    /\ WorkerFrame

\* XREADGROUP returned null after its BLOCK time: continue (line 467)
ReadNull ==
    /\ lis.pc = "reading"
    /\ outbound = <<>>
    /\ lis' = Turn
    /\ UNCHANGED <<outbound, pel, nOut>>
    /\ WorkerFrame

\* XREADGROUP rejected: caught at line 478, backoff
ReadFail ==
    /\ lis.pc = "reading"
    /\ lis' = IF ctl.running THEN [Listening EXCEPT !.pc = "backoff"] ELSE Stopped
    /\ UNCHANGED <<outbound, pel, nOut>>
    /\ WorkerFrame

\* The backoff delay is over: next turn of the while loop
BackoffDone ==
    /\ lis.pc = "backoff"
    /\ lis' = Turn
    /\ UNCHANGED <<outbound, pel, nOut>>
    /\ WorkerFrame

\* XACK of a malformed entry settled (line 381, outside every try)
AckMalformed(ok) ==
    /\ lis.pc = "ackMalformed"
    /\ pel' = IF ok THEN pel \ {lis.cur.id} ELSE pel
    /\ lis' = IF ok THEN Returns(Append(lis.att, Did("ok", "xack")))
                    ELSE Throws(Append(lis.att, Did("fail", "xack")))
    /\ UNCHANGED <<outbound, nOut>>
    /\ WorkerFrame

\* Lines 406-413: the log line and the first await of the delivery
Deliver(att) ==
    [lis EXCEPT !.pc = "import", !.att = Append(att, Did("info", "Delivering")),
                !.done = NoAttempt]

Xpending_strict(reply) ==
    /\ lis.pc = "xpending"
    /\ lis' = IF reply.kind = "throw"
              THEN Throws(lis.att \o <<Did("reply", reply), Did("error", "Failed to deliver")>>)
              ELSE IF reply.kind = "detail" /\ reply.count > DEAD_LETTER_MAX_RETRIES
              THEN [lis EXCEPT !.pc = "ackDead", !.done = NoAttempt,
                               !.att = lis.att \o <<Did("reply", reply),
                                                    Did("error", "Dead-lettering"),
                                                    Did("xack", lis.cur.id)>>]
              ELSE Deliver(Append(lis.att, Did("reply", reply)))
    /\ UNCHANGED <<outbound, pel, nOut>>
    /\ WorkerFrame

\* XPENDING settled (lines 386-404)
Xpending(reply) ==
    /\ lis.pc = "xpending"
    /\ lis' = IF reply.kind = "detail" /\ reply.count > DEAD_LETTER_MAX_RETRIES
              THEN [lis EXCEPT !.pc = "ackDead", !.done = NoAttempt,
                               !.att = lis.att \o <<Did("reply", reply),
                                                    Did("error", "Dead-lettering"),
                                                    Did("xack", lis.cur.id)>>]
              ELSE Deliver(Append(lis.att, Did("reply", reply)))
    /\ UNCHANGED <<outbound, pel, nOut>>
    /\ WorkerFrame

\* XACK of a dead-lettered entry settled (line 399, inside the try of the
\* pending inspection: its rejection ends in the empty catch of line 403)
AckDead(ok) ==
    /\ lis.pc = "ackDead"
    /\ pel' = IF ok THEN pel \ {lis.cur.id} ELSE pel
    /\ lis' = IF ok THEN Returns(Append(lis.att, Did("ok", "xack")))
                    ELSE Deliver(Append(lis.att, Did("fail", "xack")))
    /\ UNCHANGED <<outbound, nOut>>
    /\ WorkerFrame

\* The chunks of the message to send, the first handed to the CLI (lines 428-441)
SendChunks(l, text) ==
    LET chunks == splitMessage(text, MAX_MSG_LEN) IN
    [l EXCEPT !.pc = "cli", !.chunks = chunks, !.done = NoAttempt,
              !.att = Append(l.att, Did("cli", CliArgs(l.cur, Head(chunks))))]

\* The imports resolved; cliBinary is set since start(); lines 417-426
Imported ==
    /\ lis.pc = "import"
    /\ lis' = IF Len(lis.cur.fields.message) > PUBLISH_THRESHOLD /\ publisher
              THEN [lis EXCEPT !.pc = "publish", !.done = NoAttempt,
                               !.att = Append(lis.att, Did("publish", lis.cur.id))]
              ELSE SendChunks(lis, lis.cur.fields.message)
    /\ UNCHANGED <<outbound, pel, nOut>>
    /\ WorkerFrame

\* tryPublish settled: the summary with the link, or null on any failure
Published(ok) ==
    LET message == lis.cur.fields.message
        l == [lis EXCEPT !.att = Append(lis.att, Did(IF ok THEN "ok" ELSE "fail", "publish"))]
    IN
    /\ lis.pc = "publish"
    /\ lis' = IF ok
              THEN SendChunks(l, buildTelegramSummary(extractTitle(message), message, PublicUrl))
              ELSE SendChunks(l, message)
    /\ UNCHANGED <<outbound, pel, nOut>>
    /\ WorkerFrame

Cli_ackEarly(ok) ==
    LET att == Append(lis.att, Did(IF ok THEN "ok" ELSE "fail", "cli"))
        rest == Tail(lis.chunks)
    IN
    /\ lis.pc = "cli"
    /\ lis' = IF ~ok
              THEN Returns(Append(att, Did("error", "Failed to deliver")))
              ELSE IF rest # <<>>
              THEN [lis EXCEPT !.chunks = rest, !.done = NoAttempt,
                               !.att = att \o <<Did("xack", lis.cur.id),
                                                Did("cli", CliArgs(lis.cur, Head(rest)))>>]
              ELSE [lis EXCEPT !.pc = "ack", !.chunks = <<>>, !.done = NoAttempt,
                               !.att = Append(att, Did("xack", lis.cur.id))]
    /\ UNCHANGED <<outbound, pel, nOut>>
    /\ WorkerFrame

\* The CLI invocation of a chunk settled (lines 431-447)
Cli(ok) ==
    LET att == Append(lis.att, Did(IF ok THEN "ok" ELSE "fail", "cli"))
        rest == Tail(lis.chunks)
    IN
    /\ lis.pc = "cli"
    /\ lis' = IF ~ok
              THEN Returns(Append(att, Did("error", "Failed to deliver")))
              ELSE IF rest # <<>>
              THEN [lis EXCEPT !.chunks = rest, !.done = NoAttempt,
                               !.att = Append(att, Did("cli", CliArgs(lis.cur, Head(rest))))]
              ELSE [lis EXCEPT !.pc = "ack", !.chunks = <<>>, !.done = NoAttempt,
                               !.att = Append(att, Did("xack", lis.cur.id))]
    /\ UNCHANGED <<outbound, pel, nOut>>
    /\ WorkerFrame

\* The XACK after the delivery settled (line 444, inside the try)
Ack(ok) ==
    /\ lis.pc = "ack"
    /\ pel' = IF ok THEN pel \ {lis.cur.id} ELSE pel
    /\ lis' = IF ok THEN Returns(Append(lis.att, Did("ok", "xack")))
                    ELSE Returns(lis.att \o <<Did("fail", "xack"),
                                             Did("error", "Failed to deliver")>>)
    /\ UNCHANGED <<outbound, nOut>>
    /\ WorkerFrame

\* stop() (lines 528-533)
Stop ==
    /\ ctl.running
    /\ ctl' = Halted
    /\ lis' = [lis EXCEPT !.done = NoAttempt]
    /\ UNCHANGED <<outbound, pel, nOut, sm, publisher>>
    /\ BridgeFrame

\* ------------------------------------------- start of the listener
\* A step of the start-up: the bridge traffic and the entries are not involved
ServiceFrame ==
    /\ last' = NoReturn
    /\ toolLast' = NoToolReturn
    /\ UNCHANGED <<breaker, limiter, reconnectInFlight, hooks, inbound, responses,
                   blockq, recorded, consec, lastFailAt, tool, outbound, pel, nOut,
                   lis, sm, publisher>>

\* redis.xgroup("CREATE", STREAM_OUTBOUND, config.consumerGroup, "0", "MKSTREAM")
GroupCreate == [cmd |-> "XGROUP CREATE", stream |-> "bridge:outbound", id |-> "0",
                mkstream |-> TRUE]

\* What the server answers to XGROUP CREATE: OK, the group exists already,
\* or another error
GroupReplies == {"OK", "BUSYGROUP", "ERR"}

ensureConsumerGroup_strict(reply) == IF reply = "OK" THEN "resolved" ELSE "rejected"

\* ensureConsumerGroup (lines 355-363): how it settles on a reply
ensureConsumerGroup(reply) ==
    IF reply = "OK" THEN "resolved"
    ELSE IF reply = "BUSYGROUP" THEN "resolved"
    ELSE "rejected"

\* start() up to its first await (lines 513-516): the state of the service
\* with one more start() call, which has sent XGROUP CREATE
start(s) ==
    [s EXCEPT !.starts = Append(@, [pc |-> "xgroup", sent |-> GroupCreate,
                                    group |-> "none", loop |-> 0])]

Awaited_any(s) ==
    IF \E c \in Clients : s.waits[c] = "ok"
    THEN [start(s) EXCEPT !.boot = "listener", !.call = Len(s.starts) + 1]
    ELSE s

\* The continuation of start of the service once Promise.all resolved
\* (lines 655-656): listener.start(ctx)
Awaited(s) ==
    IF \A c \in Clients : s.waits[c] = "ok"
    THEN [start(s) EXCEPT !.boot = "listener", !.call = Len(s.starts) + 1]
    ELSE s

\* start of the service is called (line 649): redis.connect()
ServiceStart ==
    /\ svc.boot = "none"
    /\ status["redis"] = "wait"
    /\ status' = [status EXCEPT !["redis"] = "connecting"]
    /\ svc' = [svc EXCEPT !.boot = "connectA"]
    /\ UNCHANGED <<now, drops, ctl>>
    /\ ServiceFrame

\* Client c emits "ready": the connect() awaited resolves and the next one
\* is called (line 650), or waitForReady is entered for both clients
\* (lines 653-656: resolved at once for a ready client, else pending with a
\* timer), or the pending waitForReady of c resolves (onReady, line 313)
ClientReady(c) ==
    LET st == [status EXCEPT ![c] = "ready"] IN
    /\ status[c] \in {"connecting", "reconnecting"}
    /\ IF svc.boot = "connectA" /\ c = "redis"
       THEN /\ status' = [st EXCEPT !["redisBlocking"] = "connecting"]
            /\ svc' = [svc EXCEPT !.boot = "connectB"]
            /\ UNCHANGED ctl
       ELSE IF svc.boot = "connectB" /\ c = "redisBlocking"
       THEN LET s == Awaited([svc EXCEPT !.boot = "waiting",
                                         !.deadline = now + REDIS_STARTUP_TIMEOUT_MS,
                                         !.waits = [d \in Clients |->
                                                       IF st[d] = "ready" THEN "ok"
                                                       ELSE "pending"]])
            IN /\ status' = st
               /\ svc' = s
               /\ ctl' = IF s.boot = "listener" THEN Started ELSE ctl
       ELSE IF svc.boot = "waiting" /\ svc.waits[c] = "pending"
       THEN LET s == Awaited([svc EXCEPT !.waits[c] = "ok"])
            IN /\ status' = st
               /\ svc' = s
               /\ ctl' = IF s.boot = "listener" THEN Started ELSE ctl
       ELSE /\ status' = st
            /\ UNCHANGED <<svc, ctl>>
    /\ UNCHANGED <<now, drops>>
    /\ ServiceFrame

\* The connection attempt of client c ends for good: the connect() awaited
\* rejects and start of the service fails
ClientClosed(c) ==
    /\ status[c] \in {"connecting", "reconnecting"}
    /\ status' = [status EXCEPT ![c] = "end"]
    /\ svc' = IF \/ svc.boot = "connectA" /\ c = "redis"
                 \/ svc.boot = "connectB" /\ c = "redisBlocking"
              THEN [svc EXCEPT !.boot = "failed"]
              ELSE svc
    /\ UNCHANGED <<now, drops, ctl>>
    /\ ServiceFrame

\* Client c emits "error" while its waitForReady is pending (onError, line 317)
ClientError(c) ==
    /\ svc.boot = "waiting"
    /\ svc.waits[c] = "pending"
    /\ status[c] # "ready"
    /\ svc' = [svc EXCEPT !.boot = "failed"]
    /\ UNCHANGED <<now, drops, status, ctl>>
    /\ ServiceFrame

\* The timer of a pending waitForReady fires (lines 307-310)
StartupTimeout ==
    /\ svc.boot = "waiting"
    /\ now >= svc.deadline
    /\ svc' = [svc EXCEPT !.boot = "failed"]
    /\ UNCHANGED <<now, drops, status, ctl>>
    /\ ServiceFrame

\* The host calls start() of the listener (lines 512-516)
ListenerStart ==
    /\ Len(svc.starts) < MaxStarts
    /\ ctl' = Started
    /\ svc' = start(svc)
    /\ UNCHANGED <<now, drops, status>>
    /\ ServiceFrame

\* XGROUP CREATE of start() call i settled (lines 516, 355-363): start()
\* goes on to resolveCliBinary, or rejects, and with it start of the service
GroupSettled(i, reply) ==
    LET outcome == ensureConsumerGroup(reply) IN
    /\ i \in DOMAIN svc.starts
    /\ svc.starts[i].pc = "xgroup"
    /\ svc' = [svc EXCEPT !.starts[i].group = reply,
                          !.starts[i].pc = IF outcome = "resolved" THEN "cli" ELSE "rejected",
                          !.boot = IF outcome = "rejected" /\ svc.call = i
                                   THEN "failed" ELSE @]
    /\ UNCHANGED <<now, drops, status, ctl>>
    /\ ServiceFrame

\* The position of a poll loop at the test of while (running) (line 458):
\* it sends XREADGROUP, or pollLoop and resilientPollLoop return
Loop(running) == [pc |-> IF running THEN "reading" ELSE "exited", left |-> 0]

\* resolveCliBinary of start() call i settled (lines 518-525):
\* resilientPollLoop is called and runs to its first await; start() resolves
CliResolved(i) ==
    /\ i \in DOMAIN svc.starts
    /\ svc.starts[i].pc = "cli"
    /\ svc' = [svc EXCEPT !.starts[i].pc = "resolved",
                          !.starts[i].loop = Len(svc.loops) + 1,
                          !.loops = Append(@, Loop(ctl.running)),
                          !.read = @ \/ ctl.running,
                          !.boot = IF svc.call = i THEN "started" ELSE @]
    /\ UNCHANGED <<now, drops, status, ctl>>
    /\ ServiceFrame

\* XREADGROUP of loop k returned null (line 468) or n entries, the first of
\* which is handed to processEntry (lines 470-473)
LoopRead(k, n) ==
    /\ k \in DOMAIN svc.loops
    /\ svc.loops[k].pc = "reading"
    /\ svc' = [svc EXCEPT !.loops[k] =
                    IF n = 0 THEN Loop(ctl.running)
                    ELSE IF aborted THEN [pc |-> "exited", left |-> 0]
                    ELSE [pc |-> "entries", left |-> n - 1]]
    /\ UNCHANGED <<now, drops, status, ctl>>
    /\ ServiceFrame

\* XREADGROUP of loop k was rejected, or processEntry threw: the catch of
\* lines 475-483
LoopCaught(k) ==
    /\ k \in DOMAIN svc.loops
    /\ svc.loops[k].pc \in {"reading", "entries"}
    /\ svc' = [svc EXCEPT !.loops[k] = [pc |-> IF ctl.running THEN "backoff" ELSE "exited",
                                        left |-> 0]]
    /\ UNCHANGED <<now, drops, status, ctl>>
    /\ ServiceFrame

\* processEntry of loop k returned: the next entry of the batch, or the next
\* turn of the while loop
LoopEntryDone(k) ==
    /\ k \in DOMAIN svc.loops
    /\ svc.loops[k].pc = "entries"
    /\ svc' = [svc EXCEPT !.loops[k] =
                    IF @.left = 0 THEN Loop(ctl.running)
                    ELSE IF aborted THEN [pc |-> "exited", left |-> 0]
                    ELSE [@ EXCEPT !.left = @ - 1]]
    /\ UNCHANGED <<now, drops, status, ctl>>
    /\ ServiceFrame

\* The delay after a caught error is over (lines 481-483)
LoopBackoffDone(k) ==
    /\ k \in DOMAIN svc.loops
    /\ svc.loops[k].pc = "backoff"
    /\ svc' = [svc EXCEPT !.loops[k] = Loop(ctl.running)]
    /\ UNCHANGED <<now, drops, status, ctl>>
    /\ ServiceFrame

\* ------------------------------------------------ clients and commands
\* The client each blocking command is sent on: the BRPOP of the hook
\* (index.ts line 586), the BRPOP of the tool (the client given to
\* createRedisBridgeTool, index.ts line 488; tools.ts line 52), the
\* XREADGROUP BLOCK of the listener (the client given to
\* createOutboundListener, index.ts line 636; listener.ts line 461)
HookPopClient == "redisBlocking"
ToolClient == "redis"
ListenerClient == "redis"

\* The blocking commands that client c is carrying
BlockingOn(c) ==
    (IF c = HookPopClient /\ \E h \in Slots : hooks[h].pc = "brpop"
     THEN {"BRPOP (hook)"} ELSE {})
    \cup (IF c = ToolClient /\ tool.pc = "brpop" THEN {"BRPOP (tool)"} ELSE {})
    \cup (IF c = ListenerClient /\ lis.pc = "reading" THEN {"XREADGROUP BLOCK"} ELSE {})

\* --------------------------------------------------------- environment
EnvFrame ==
    /\ last' = NoReturn
    /\ ToolFrame
    /\ UNCHANGED <<breaker, limiter, reconnectInFlight, hooks, blockq, consec, lastFailAt>>

\* The engine reads the next inbound entry and answers it on its rendezvous key
EngineAnswer ==
    /\ inbound # <<>>
    /\ inbound' = Tail(inbound)
    /\ responses' = [responses EXCEPT ![Head(inbound).correlationId] =
                                            <<Head(inbound).correlationId>> \o @]
    /\ UNCHANGED <<now, status, drops, recorded>>
    /\ EnvFrame

\* The engine reads the next inbound entry and never answers it
EngineIgnore ==
    /\ inbound # <<>>
    /\ inbound' = Tail(inbound)
    /\ UNCHANGED <<now, status, drops, recorded, responses>>
    /\ EnvFrame

\* The clock advances; the history forgets what is older than the window
Tick ==
    /\ now < Epoch + MaxTime
    /\ now' = now + 1
    /\ recorded' = [a \in AgentIds |->
                        SelectSeq(recorded[a], LAMBDA t : t >= now' - WINDOW_MS)]
    /\ UNCHANGED <<status, drops, responses, inbound>>
    /\ EnvFrame

\* A ready connection is lost: ioredis retries ("reconnecting") or gives up ("end")
ClientDrop(c, to) ==
    /\ drops < MaxDrops
    /\ status[c] = "ready"
    /\ status' = [status EXCEPT ![c] = to]
    /\ drops' = drops + 1
    /\ UNCHANGED <<now, responses, inbound, recorded>>
    /\ EnvFrame

\* A connection attempt ends: "ready", or "end"
ClientSettle(c, to) ==
    /\ status[c] \in {"connecting", "reconnecting"}
    /\ status' = [status EXCEPT ![c] = to]
    /\ UNCHANGED <<now, drops, responses, inbound, recorded>>
    /\ EnvFrame

\* The traffic of one bridged agent, of an agent that is not bridged and of
\* requests without agent id, against the whole bridge.
SpecAgents == {"eng-1", "other", ""}

Next ==
    \/ \E h \in Slots, a \in SpecAgents, b \in Bodies : HookStart(h, a, b)
    \/ \E h \in Slots : ConnectSettled(h)
    \/ \E h \in Slots : PollDone(h)
    \/ \E h \in Slots : XaddOk(h)
    \/ \E h \in Slots : XaddFail(h)
    \/ \E h \in Slots, raw \in RawValues : BrpopValue(h, raw)
    \/ \E h \in Slots : BrpopTimeout(h)
    \/ \E h \in Slots : BrpopFail(h)
    \/ EngineAnswer
    \/ EngineIgnore
    \/ Tick
    \/ \E c \in Clients, to \in {"reconnecting", "end"} : ClientDrop(c, to)
    \/ \E c \in Clients, to \in {"ready", "end"} : ClientSettle(c, to)

Spec == Init /\ [][Next]_vars

\* The traffic of every agent against a broker that rejects every write: the
\* limiter is driven through all its states, the requests it lets pass end
\* in the catch of the hook.
LimiterNext ==
    \/ \E h \in Slots, a \in AgentIds, b \in Bodies : HookStart(h, a, b)
    \/ \E h \in Slots : XaddFail(h)
    \/ Tick

LimiterSpec == Init /\ [][LimiterNext]_vars

\* The redis_bridge tool and the hook of one bridged agent, one execution of
\* each at a time, appending to the same stream, with both clients ready.
ToolNext ==
    \/ \E a \in ConfigAgents, p \in ToolParams : ToolExecute(a, p)
    \/ ToolXaddOk
    \/ ToolXaddFail
    \/ \E raw \in RawValues : ToolBrpopValue(raw)
    \/ ToolBrpopTimeout
    \/ ToolBrpopFail
    \/ \E b \in Bodies : HookStart(1, "eng-1", b)
    \/ XaddOk(1)
    \/ XaddFail(1)
    \/ \E raw \in RawValues : BrpopValue(1, raw)
    \/ BrpopTimeout(1)
    \/ EngineAnswer
    \/ EngineIgnore
    \/ Tick

ToolSpec == Init /\ [][ToolNext]_vars

\* The outbound listener, started, and the engine appending entries
ListenerNext ==
    \/ \E f \in OutFields : EnginePublish(f)
    \/ ReadBatch
    \/ ReadNull
    \/ ReadFail
    \/ BackoffDone
    \/ \E ok \in BOOLEAN : AckMalformed(ok)
    \/ \E reply \in XpendingReplies : Xpending(reply)
    \/ \E ok \in BOOLEAN : AckDead(ok)
    \/ Imported
    \/ \E ok \in BOOLEAN : Published(ok)
    \/ \E ok \in BOOLEAN : Cli(ok)
    \/ \E ok \in BOOLEAN : Ack(ok)
    \/ Stop

ListenerSpec == ListenerInit /\ [][ListenerNext]_vars

\* The same with a worker that keeps running: the poll loop takes its next
\* turn and every awaited command eventually settles (lines 458-485)
WorkerStep ==
    \/ ReadBatch
    \/ ReadNull
    \/ ReadFail
    \/ BackoffDone
    \/ \E ok \in BOOLEAN : AckMalformed(ok)
    \/ \E reply \in XpendingReplies : Xpending(reply)
    \/ \E ok \in BOOLEAN : AckDead(ok)
    \/ Imported
    \/ \E ok \in BOOLEAN : Published(ok)
    \/ \E ok \in BOOLEAN : Cli(ok)
    \/ \E ok \in BOOLEAN : Ack(ok)

ListenerLiveSpec == ListenerSpec /\ WF_vars(WorkerStep) /\ SF_vars(ReadBatch)

\* splitMessage on its own: any text over two letters, the blank and the
\* line break, and any maxLen >= 1
Alphabet == {"a", "b", " ", "\n"}
Texts == UNION {[1..n -> Alphabet] : n \in 0..MaxTextLen}

SplitInit ==
    /\ Registered
    /\ \E text \in Texts, maxLen \in 1..MaxMaxLen :
          sm = [pc |-> "called", text |-> text, maxLen |-> maxLen, chunks |-> <<>>]
    /\ publisher = TRUE

Split ==
    /\ sm.pc = "called"
    /\ sm' = [sm EXCEPT !.pc = "returned", !.chunks = splitMessage(sm.text, sm.maxLen)]
    /\ UNCHANGED <<outbound, pel, nOut, lis, ctl, publisher>>
    /\ BridgeFrame

SplitSpec == SplitInit /\ [][Split]_vars

\* The start of the service from the registered plugin on: both clients
\* are lazy and not connected, the listener is created and not started.
LifecycleInit ==
    /\ Constructed
    /\ status = [c \in Clients |-> "wait"]
    /\ lis = Stopped
    /\ ctl = Halted
    /\ sm = NoCall
    /\ publisher = TRUE

LifecycleNext ==
    \/ ServiceStart
    \/ \E c \in Clients : ClientReady(c)
    \/ \E c \in Clients : ClientClosed(c)
    \/ \E c \in Clients, to \in {"reconnecting", "end"} : ClientDrop(c, to)
    \/ \E c \in Clients : ClientError(c)
    \/ StartupTimeout
    \/ Tick
    \/ \E i \in 1..MaxStarts, reply \in GroupReplies : GroupSettled(i, reply)
    \/ \E i \in 1..MaxStarts : CliResolved(i)
    \/ \E k \in 1..MaxStarts, n \in 0..MaxEntries : LoopRead(k, n)
    \/ \E k \in 1..MaxStarts : LoopCaught(k)
    \/ \E k \in 1..MaxStarts : LoopEntryDone(k)
    \/ \E k \in 1..MaxStarts : LoopBackoffDone(k)

LifecycleSpec == LifecycleInit /\ [][LifecycleNext]_vars

\* One listener whose start() and stop() the host calls in any order, with
\* both clients ready.
RestartInit ==
    /\ Constructed
    /\ status = [c \in Clients |-> "ready"]
    /\ lis = Stopped
    /\ ctl = Halted
    /\ sm = NoCall
    /\ publisher = TRUE

RestartNext ==
    \/ ListenerStart
    \/ Stop
    \/ \E i \in 1..MaxStarts, reply \in GroupReplies : GroupSettled(i, reply)
    \/ \E i \in 1..MaxStarts : CliResolved(i)
    \/ \E k \in 1..MaxStarts, n \in 0..MaxEntries : LoopRead(k, n)
    \/ \E k \in 1..MaxStarts : LoopCaught(k)
    \/ \E k \in 1..MaxStarts : LoopEntryDone(k)
    \/ \E k \in 1..MaxStarts : LoopBackoffDone(k)

RestartSpec == RestartInit /\ [][RestartNext]_vars

\* ===================================================== properties
\* What the properties say in their own terms, not in the code's: the agents
\* the configuration names, the bodies of a heartbeat, the state that the
\* fields of the breaker stand for, the entries a window holds that are not
\* older than the window.
Bridged(agentId) == agentId # "" /\ agentId \in ConfigAgents

HeartbeatBody(body) ==
    /\ body.str
    /\ \E i \in DOMAIN body.words : body.words[i] \in {"HEARTBEAT_OK", "Read HEARTBEAT.md"}

DerivedState(failures, openedAt, t) ==
    CASE failures < threshold -> "closed"
      [] failures >= threshold /\ t - openedAt >= cooldownMs -> "half-open"
      [] failures >= threshold /\ t - openedAt < cooldownMs -> "open"

Kept(window) == SelectSeq(window, LAMBDA ts : ts >= now - WINDOW_MS)

RECURSIVE TotalRecorded(_)
TotalRecorded(S) ==
    IF S = {} THEN 0
    ELSE LET a == CHOOSE x \in S : TRUE
         IN  Len(recorded[a]) + TotalRecorded(S \ {a})

InFlight == {h \in Slots : hooks[h].pc # "idle"}

\* An exception left the code of the hook, caught or not
Threw(l) ==
    /\ l.kind = "return"
    /\ \/ l.reply.kind = "throw"
       \/ l.reply.text.kind = CaughtReply("").text.kind

\* ------------------------------------------------------------------
\* C1: an exception thrown at any point of the hook after the bridged-agent
\* check never leaves the hook: the hook returns a reply with isError true
\* and a breaker failure has been recorded.
C1_ExceptionsCaught ==
    (Threw(last) /\ Bridged(last.agent)) =>
        /\ last.reply.kind = "reply"
        /\ last.reply.isError
        /\ last.op = "failure"

\* ------------------------------------------------------------------
\* C2: an invocation whose agent id is missing or not in the configured set
\* returns undefined, sends no broker command, and leaves the limiter and
\* the breaker as they were.
C2_NotBridgedPassThrough ==
    [][ (last'.kind = "return" /\ ~Bridged(last'.agent)) =>
            /\ last'.reply = Undefined
            /\ last'.sent = 0 /\ last'.popped = 0
            /\ limiter' = limiter /\ recorded' = recorded
            /\ breaker' = breaker
            /\ inbound' = inbound /\ blockq' = blockq /\ responses' = responses
            /\ hooks' = hooks /\ status' = status
      ]_vars

\* A request of an agent that is not bridged returned while the breaker
\* held failures and the limiter held entries
C2_Witness ==
    /\ last.kind = "return" /\ last.agent = "other"
    /\ last.reply = Undefined
    /\ breaker.failures > 0
    /\ limiter.globalWindow # <<>>

\* ------------------------------------------------------------------
\* C3: a bridged invocation whose body contains HEARTBEAT_OK or
\* Read HEARTBEAT.md returns exactly the reply HEARTBEAT_OK without isError,
\* writes nothing to the broker, does not charge the limiter and does not
\* touch the breaker, whatever the breaker, the limiter and the clients are.
C3_HeartbeatShortCircuit ==
    [][ (/\ last'.kind = "return"
         /\ Bridged(last'.agent)
         /\ HeartbeatBody(last'.body)) =>
            /\ last'.reply = HeartbeatReply
            /\ ~last'.reply.isError
            /\ last'.sent = 0 /\ last'.popped = 0
            /\ limiter' = limiter /\ recorded' = recorded
            /\ breaker' = breaker
            /\ inbound' = inbound /\ blockq' = blockq /\ responses' = responses
            /\ hooks' = hooks /\ status' = status
      ]_vars

\* A heartbeat that only contains the marker was answered while the breaker
\* was open, the agent's window full and a client not ready
C3_Witness ==
    /\ last.kind = "return" /\ last.reply = HeartbeatReply
    /\ last.body = Str(<<"Please", "Read HEARTBEAT.md">>)
    /\ isOpen(breaker, now)
    /\ Len(Kept(limiter.agentWindows[last.agent])) >= maxRequestsPerAgentPerHour
    /\ ~isRedisReady(status)

\* ------------------------------------------------------------------
\* C4: after threshold consecutive recorded failures with no success in
\* between, an invocation that reaches the breaker check before cooldownMs
\* has passed since the most recent failure returns the isError reply
\* "temporairement indisponible" and performs no XADD and no BRPOP.
PassedLimiter == now' = now /\ recorded' # recorded

C4_OpenFastFail ==
    [][ (/\ PassedLimiter
         /\ consec >= threshold
         /\ now - lastFailAt < cooldownMs) =>
            /\ last'.kind = "return"
            /\ last'.reply = UnavailableReply
            /\ last'.reply.isError
            /\ last'.sent = 0 /\ last'.popped = 0
            /\ hooks' = hooks
            /\ inbound' = inbound /\ blockq' = blockq /\ responses' = responses
      ]_vars

\* A request passed the limiter and was turned away by the open breaker
C4_Witness ==
    /\ last.kind = "return" /\ last.reply = UnavailableReply
    /\ last.checked = Null
    /\ consec >= threshold /\ now - lastFailAt < cooldownMs

\* ------------------------------------------------------------------
\* C5: while the breaker is half-open exactly one probe request is let
\* through to the broker: an invocation that arrives before the outcome of
\* the probe has been recorded is not forwarded.
C5_SingleProbe ==
    isHalfOpen(breaker, now) =>
        Cardinality({h \in InFlight : hooks[h].probe /\ hooks[h].sent > 0}) <= 1

\* ------------------------------------------------------------------
\* C6: the state of the breaker is a function of (failures, openedAt, now):
\* closed iff failures < threshold; otherwise half-open iff
\* now - openedAt >= cooldownMs, otherwise open.  isOpen and isHalfOpen are
\* never both true, and failures, the count of the failures since the last
\* success, is never negative.
C6_DerivedState ==
    /\ breaker.failures >= 0
    /\ breaker.failures = consec
    /\ getState(breaker, now) = DerivedState(breaker.failures, breaker.openedAt, now)
    /\ isOpen(breaker, now) <=> (getState(breaker, now) = "open")
    /\ isHalfOpen(breaker, now) <=> (getState(breaker, now) = "half-open")
    /\ ~(isOpen(breaker, now) /\ isHalfOpen(breaker, now))

\* The breaker stands exactly at the threshold, its cooldown over
C6_Witness ==
    /\ breaker.failures = threshold
    /\ now - breaker.openedAt >= cooldownMs
    /\ isHalfOpen(breaker, now)

\* ------------------------------------------------------------------
\* C7: recordSuccess() from any state (closed with failures, open,
\* half-open) leaves the breaker closed with failures = 0; afterwards it
\* takes threshold new consecutive failures to open it again.
C7_SuccessCloses ==
    /\ (last.kind = "return" /\ last.op = "success") =>
            /\ breaker.failures = 0
            /\ getState(breaker, now) = "closed"
            /\ ~isOpen(breaker, now) /\ ~isHalfOpen(breaker, now)
    /\ getState(breaker, now) # "closed" => consec >= threshold

\* An answer arrived for a request in flight while the breaker was open
C7_Witness ==
    /\ last.kind = "return" /\ last.op = "success"
    /\ last.pre = "open"
    /\ breaker.failures = 0

\* ------------------------------------------------------------------
\* C8: every recordFailure() that brings failures to threshold or keeps it
\* there, at time t, stamps openedAt with t: the breaker is open during
\* [t, t + cooldownMs) and half-open from t + cooldownMs on, until the next
\* event.
C8_FailureRestamps ==
    /\ (last.kind = "return" /\ last.op = "failure" /\ breaker.failures >= threshold) =>
            /\ breaker.openedAt = now
            /\ isOpen(breaker, now)
    /\ breaker.failures >= threshold =>
            /\ breaker.openedAt = lastFailAt
            /\ isOpen(breaker, now) <=> (now - lastFailAt < cooldownMs)
            /\ isHalfOpen(breaker, now) <=> (now - lastFailAt >= cooldownMs)

\* The probe of a half-open breaker failed: the breaker is open anew
C8_Witness ==
    /\ last.kind = "return" /\ last.op = "failure"
    /\ last.pre = "half-open"
    /\ breaker.failures > threshold
    /\ breaker.openedAt = now /\ breaker.openedAt > Epoch
    /\ isOpen(breaker, now)

\* ------------------------------------------------------------------
\* C9: check(agent) answers with a message iff, entries older than the
\* window dropped, the agent's window holds at least
\* maxRequestsPerAgentPerHour entries or the global window at least
\* maxRequestsPerHour; with both limits reached the message is the agent's;
\* check adds no entry to any window.
Denied(a) ==
    /\ last'.kind = "return" /\ last'.agent = a
    /\ last'.checked \notin {Null, Msg("unchecked", "")}

Allowed(a) == now' = now /\ recorded'[a] # recorded[a]

C9_CheckDecision ==
    [][ \A a \in ConfigAgents :
          LET agentCount == Len(Kept(limiter.agentWindows[a]))
              globalCount == Len(Kept(limiter.globalWindow))
              agentFull == agentCount >= maxRequestsPerAgentPerHour
              globalFull == globalCount >= maxRequestsPerHour
          IN
          /\ Denied(a) =>
                /\ agentFull \/ globalFull
                /\ last'.checked = IF agentFull THEN AgentLimitMsg(a) ELSE GlobalLimitMsg
                /\ last'.reply = Reply(last'.checked, TRUE)
                /\ Len(limiter'.globalWindow) <= Len(limiter.globalWindow)
                /\ \A x \in AgentIds :
                      Len(limiter'.agentWindows[x]) <= Len(limiter.agentWindows[x])
                /\ recorded' = recorded
          /\ Allowed(a) =>
                /\ ~agentFull /\ ~globalFull
                /\ limiter'.globalWindow = Append(Kept(limiter.globalWindow), now)
                /\ limiter'.agentWindows[a] = Append(Kept(limiter.agentWindows[a]), now)
                /\ \A x \in AgentIds \ {a} :
                      limiter'.agentWindows[x] = limiter.agentWindows[x]
      ]_vars

\* Both limits were reached and the answer named the agent; before that,
\* entries had grown older than the window
C9_Witness ==
    /\ last.kind = "return"
    /\ last.checked = AgentLimitMsg(last.agent)
    /\ Len(Kept(limiter.globalWindow)) >= maxRequestsPerHour
    /\ now > Epoch + WINDOW_MS

\* ------------------------------------------------------------------
\* C10: however the invocations interleave, the requests recorded with
\* timestamps inside one window never exceed maxRequestsPerAgentPerHour for
\* one agent nor maxRequestsPerHour in all.
C10_WindowBound ==
    /\ \A a \in AgentIds : Len(recorded[a]) <= maxRequestsPerAgentPerHour
    /\ TotalRecorded(AgentIds) <= maxRequestsPerHour

\* The global limit is used up, by requests of which two are still in flight
C10_Witness ==
    /\ TotalRecorded(AgentIds) = maxRequestsPerHour
    /\ \E a \in ConfigAgents : Len(recorded[a]) = maxRequestsPerAgentPerHour
    /\ Cardinality(InFlight) = NumHooks

\* ------------------------------------------------------------------
\* C11: when the limiter denies a request the hook answers with the
\* limiter's message and isError true in the same step (it waits for no
\* alert), sends no broker command and neither reads nor changes the
\* breaker: the answer is the same whether the breaker is open or not.
LimitReached(a) ==
    \/ Len(Kept(limiter.agentWindows[a])) >= maxRequestsPerAgentPerHour
    \/ Len(Kept(limiter.globalWindow)) >= maxRequestsPerHour

\* The step is a whole run of the hook, begun and ended in it, for a request
\* that the heartbeat test let pass
RequestAnswered ==
    /\ last'.kind = "return"
    /\ Bridged(last'.agent)
    /\ last'.body.str /\ ~HeartbeatBody(last'.body)
    /\ hooks' = hooks

C11_DeniedReply ==
    [][ /\ (RequestAnswered /\ LimitReached(last'.agent)) =>
              /\ last'.reply.kind = "reply"
              /\ last'.reply.isError
              /\ last'.reply.text \in {AgentLimitMsg(last'.agent), GlobalLimitMsg}
              /\ last'.reply.text = last'.checked
              /\ last'.sent = 0 /\ last'.popped = 0
              /\ last'.op = "none"
              /\ breaker' = breaker
              /\ inbound' = inbound /\ blockq' = blockq /\ responses' = responses
              /\ status' = status /\ reconnectInFlight' = reconnectInFlight
        /\ \A a \in ConfigAgents :
              (LimitReached(a) /\ now' = now) => recorded'[a] = recorded[a]
      ]_vars

\* The global limit alone was reached, and the breaker was open: the answer
\* is the limiter's, not the breaker's
C11_Witness ==
    /\ last.kind = "return"
    /\ last.reply = Reply(GlobalLimitMsg, TRUE)
    /\ isOpen(breaker, now)
    /\ limiter.lastAlertAt = now

\* ------------------------------------------------------------------
\* C12: when the blocking pop on the rendezvous key of a request returns
\* nothing within timeoutSeconds, the hook answers exactly
\* {text: "The engine did not respond in time. Please try again.",
\* isError: true} and the failure count of the breaker grows by exactly 1.
\* The pop of h returned, and returned nothing: h leaves its BRPOP and no
\* list lost a value, while no exception was thrown
PopReturnedNothing(h) ==
    /\ hooks[h].pc = "brpop" /\ hooks'[h].pc = "idle"
    /\ responses' = responses
    /\ last'.kind = "return" /\ ~Threw(last')

C12_TimeoutReply ==
    [][ \A h \in Slots : PopReturnedNothing(h) =>
            /\ last'.reply = TimeoutReply
            /\ last'.reply.isError
            /\ responses[hooks[h].cid] = <<>>
            /\ now >= hooks[h].deadline
            /\ hooks[h].deadline > 0
            /\ breaker'.failures = breaker.failures + 1
            /\ last'.sent = 1 /\ last'.popped = 1
      ]_vars

\* The timeout of a request was the failure that opened the breaker
C12_Witness ==
    /\ last.kind = "return" /\ last.reply = TimeoutReply
    /\ last.pre = "closed"
    /\ breaker.failures = threshold
    /\ isOpen(breaker, now)

\* ------------------------------------------------------------------
\* C13: a bridged request that is no heartbeat, that the limiter allows,
\* with the breaker not open and the broker ready, sends exactly one XADD
\* to bridge:inbound (with its fresh correlationId, the message, the agent
\* and protocolVersion "1") and only then one blocking pop on its
\* rendezvous key; when the engine pushed a value with no error field (an
\* object with a text, or a string that is no JSON), the reply is its text
\* without isError, and the breaker is closed with failures = 0 afterwards.
FreshCid(c, h) ==
    /\ \A j \in Slots \ {h} : hooks[j].cid # c
    /\ \A i \in DOMAIN inbound : inbound[i].correlationId # c
    /\ responses[c] = <<>>

TextOf(raw) == IF raw.form = "plain" THEN raw.src ELSE raw.text

C14_EngineError ==
    [][ /\ \A h \in Slots, raw \in RawValues :
              (BrpopValue(h, raw) /\ raw.form = "object" /\ raw.error # "") =>
                  /\ last'.reply = Reply(Msg("Engine error: ", raw.error), TRUE)
                  /\ last'.op = "none"
                  /\ breaker'.failures = breaker.failures
                  /\ breaker'.openedAt = breaker.openedAt
                  /\ getState(breaker', now') = getState(breaker, now)
                  /\ consec' = consec
        /\ (last'.kind = "return" /\ last'.op = "success") =>
              \E h \in Slots, raw \in RawValues :
                  BrpopValue(h, raw) /\ raw.error = ""
      ]_vars

\* The engine answered the probe of a half-open breaker with an error
C14_Witness ==
    /\ last.kind = "return"
    /\ last.reply = EngineErrorReply("boom")
    /\ last.probe
    /\ last.pre = "half-open"
    /\ isHalfOpen(breaker, now)

\* ------------------------------------------------------------------
\* C15: when the broker is not ready as the hook comes to forward and
\* ensureConnected() does not bring it back, the hook records exactly one
\* breaker failure, answers with the connection-lost message and isError
\* true, and sends neither XADD nor BRPOP; an XADD is only sent with both
\* clients ready.
BothReady == \A c \in Clients : status[c] = "ready"

C15_ConnectionLost ==
    [][ \A h \in Slots :
          /\ (hooks[h].pc \in {"reconnect", "poll"} /\ hooks'[h].pc = "idle") =>
                /\ ~BothReady
                /\ now >= hooks[h].deadline
                /\ last'.kind = "return"
                /\ last'.reply = ConnectionLostReply
                /\ last'.reply.isError
                /\ last'.op = "failure"
                /\ breaker'.failures = breaker.failures + 1
                /\ last'.sent = 0 /\ last'.popped = 0
                /\ inbound' = inbound /\ blockq' = blockq
          /\ (hooks[h].pc \in {"reconnect", "poll"} /\ ~BothReady) =>
                hooks'[h].pc \in {"reconnect", "poll", "idle"}
          /\ (hooks[h].pc # "xadd" /\ hooks'[h].pc = "xadd") => BothReady
      ]_vars

\* A request gave up on a client that had ended, after the poll window
C15_Witness ==
    /\ last.kind = "return"
    /\ last.reply = ConnectionLostReply
    /\ \E c \in Clients : status[c] = "end"
    /\ breaker.failures = 1
    /\ ~reconnectInFlight

\* ------------------------------------------------------------------
\* C16: every entry appended to bridge:inbound, by the hook or by the
\* redis_bridge tool, carries the mandatory fields correlationId, message,
\* from, agent, channel, accountId, sessionKey, timestamp and
\* protocolVersion = "1", the message being a string.
MandatoryFields == {"correlationId", "message", "from", "agent", "channel",
                    "accountId", "sessionKey", "timestamp", "protocolVersion"}

C16_MandatoryFields ==
    \A i \in DOMAIN inbound :
        /\ MandatoryFields \subseteq DOMAIN inbound[i]
        /\ inbound[i].protocolVersion = "1"
        /\ inbound[i].message.str

\* ------------------------------------------------------------------
\* The listener: what a run of processEntry did, read off its notes
Ops(att, op) == {i \in DOMAIN att : att[i].op = op}
Count(att, op) == Cardinality(Ops(att, op))
Results(att, res, of) == {i \in DOMAIN att : att[i].op = res /\ att[i].arg = of}
Logged(att, level, text) == {i \in DOMAIN att : att[i].op = level /\ att[i].arg = text}

\* An entry lacks message, to or channel, or has it empty
Lacks(fields, k) == k \notin DOMAIN fields \/ Len(fields[k]) = 0
Malformed(entry) ==
    Lacks(entry.fields, "message") \/ Lacks(entry.fields, "to") \/ Lacks(entry.fields, "channel")

\* The pending inspection reported a delivery count above 5 for the entry
ReportedOver(att) ==
    \E i \in Ops(att, "reply") :
        att[i].arg.kind = "detail" /\ att[i].arg.count > 5

Ended == lis.done.outcome # "none"

\* ------------------------------------------------------------------
\* C17: an outbound entry that lacks message, to or channel (or has it
\* empty) is acknowledged exactly once and discarded with a warning: there
\* is no pending inspection, no publish and no CLI invocation for it.
C17_MalformedDiscarded ==
    /\ (lis.cur # NoEntry /\ Malformed(lis.cur)) =>
            /\ lis.pc = "ackMalformed"
            /\ Count(lis.att, "xack") = 1
            /\ Count(lis.att, "warn") = 1
            /\ Count(lis.att, "xpending") = 0
            /\ Count(lis.att, "publish") = 0
            /\ Count(lis.att, "cli") = 0
    /\ (Ended /\ Malformed(lis.done.entry)) =>
            /\ Count(lis.done.att, "xack") = 1
            /\ Count(lis.done.att, "warn") = 1
            /\ Count(lis.done.att, "xpending") = 0
            /\ Count(lis.done.att, "publish") = 0
            /\ Count(lis.done.att, "cli") = 0
            /\ lis.done.outcome = "returned" => lis.done.entry.id \notin pel

\* An entry without channel was acknowledged and dropped
C17_Witness ==
    /\ lis.done.outcome = "returned"
    /\ "channel" \notin DOMAIN lis.done.entry.fields
    /\ Results(lis.done.att, "ok", "xack") # {}
    /\ lis.done.entry.id \notin pel

\* ------------------------------------------------------------------
\* C18: for a well-formed entry whose delivery count, as the pending
\* inspection reports it, exceeds 5, exactly one acknowledgement is issued,
\* an error with "Dead-lettering" is logged and there is no CLI invocation
\* and no publish; an entry with a count of at most 5 is not dead-lettered.
C18_DeadLetter ==
    Ended =>
        /\ ReportedOver(lis.done.att) =>
              /\ Count(lis.done.att, "xack") = 1
              /\ Cardinality(Logged(lis.done.att, "error", "Dead-lettering")) = 1
              /\ Count(lis.done.att, "cli") = 0
              /\ Count(lis.done.att, "publish") = 0
        /\ ~ReportedOver(lis.done.att) =>
              Logged(lis.done.att, "error", "Dead-lettering") = {}

\* ------------------------------------------------------------------
\* C19: for a well-formed entry that is not dead-lettered (no delivery
\* count above 5 was reported) and whose CLI invocations all succeed,
\* exactly one XACK is issued in the run, and only after the CLI invocation
\* of the last chunk has succeeded.
AllChunksSent(att) ==
    /\ Count(att, "cli") >= 1
    /\ Results(att, "fail", "cli") = {}
    /\ Cardinality(Results(att, "ok", "cli")) = Count(att, "cli")

C19_AckAfterLastChunk ==
    /\ (Ended /\ ~Malformed(lis.done.entry) /\ ~ReportedOver(lis.done.att)
              /\ AllChunksSent(lis.done.att)) =>
            /\ Count(lis.done.att, "xack") = 1
            /\ \A x \in Ops(lis.done.att, "xack") :
                  /\ \A c \in Ops(lis.done.att, "cli") : c < x
                  /\ x - 1 \in Results(lis.done.att, "ok", "cli")
    /\ (lis.pc \in {"import", "publish", "cli"} /\ ~ReportedOver(lis.att)) =>
            Count(lis.att, "xack") = 0

\* The three chunks of a long message went out one after the other, then
\* the entry was acknowledged
C19_Witness ==
    /\ lis.done.outcome = "returned"
    /\ Count(lis.done.att, "cli") = 3
    /\ Cardinality(Results(lis.done.att, "ok", "cli")) = 3
    /\ Results(lis.done.att, "ok", "xack") # {}
    /\ lis.done.entry.id \notin pel

\* ------------------------------------------------------------------
\* C20: when the CLI invocation of a chunk fails, no XACK is issued for the
\* entry in that run, no later chunk is sent, the failure is logged and the
\* error does not leave processEntry.
C20_FailureNotAcked ==
    (Ended /\ Results(lis.done.att, "fail", "cli") # {}) =>
        /\ Count(lis.done.att, "xack") = 0
        /\ \A f \in Results(lis.done.att, "fail", "cli") :
              \A c \in Ops(lis.done.att, "cli") : c < f
        /\ Logged(lis.done.att, "error", "Failed to deliver") # {}
        /\ lis.done.outcome = "returned"
        /\ lis.done.entry.id \in pel

\* ------------------------------------------------------------------
\* C21: a well-formed entry whose delivery failed and that was left
\* unacknowledged is handed to the worker again by a later read, and while
\* the worker keeps running (no stop()) it is eventually acknowledged.
EntryIds == 1..MaxEntries

LeftUnacked(id) ==
    /\ lis.done.outcome = "returned"
    /\ lis.done.entry.id = id
    /\ ~Malformed(lis.done.entry)
    /\ Logged(lis.done.att, "error", "Failed to deliver") # {}
    /\ id \in pel

C21_Redelivered ==
    \A id \in EntryIds :
        /\ LeftUnacked(id) ~> (lis.cur.id = id \/ ~ctl.running)
        /\ LeftUnacked(id) ~> (id \notin pel \/ ~ctl.running)

\* ------------------------------------------------------------------
\* C22: after stop() the worker starts no further entry processing: when
\* the entry in process ends, the entries of the fetched batch that were
\* not yet started are not started (so they get no CLI invocation and no
\* acknowledgement), and no further consumer-group read is issued.
StartsEntry == lis.cur # NoEntry /\ lis'.cur # NoEntry /\ lis'.cur # lis.cur
IssuesRead == lis.pc # "reading" /\ lis'.pc = "reading"

C22_StopStartsNothing ==
    [][~ctl.running => (~StartsEntry /\ ~IssuesRead)]_vars

\* ------------------------------------------------------------------
\* C23: for every text and every maxLen >= 1, splitMessage(text, maxLen)
\* returns (the call ends) and every chunk it returns has at most maxLen
\* characters, whichever rule cut it.
C23_ChunkLength ==
    sm.pc = "returned" =>
        \A i \in DOMAIN sm.chunks : Len(sm.chunks[i]) <= sm.maxLen

\* A text cut at a line break and by a hard cut, one chunk of full length
C23_Witness ==
    /\ sm.pc = "returned"
    /\ Len(sm.chunks) >= 3
    /\ \E i \in DOMAIN sm.chunks : Len(sm.chunks[i]) = sm.maxLen
    /\ \E i \in DOMAIN sm.chunks : Len(sm.chunks[i]) < sm.maxLen /\ i < Len(sm.chunks)

\* ------------------------------------------------------------------
\* C24: splitMessage loses no content: a text of at most maxLen characters
\* comes back as the single chunk text; for a longer text the chunks, in
\* order, are the text with only whitespace left out between them (and
\* after the last).
Blank(text) == \A i \in DOMAIN text : text[i] \in {" ", "\n"}
StartsWith(text, chunk) ==
    Len(chunk) <= Len(text) /\ SubSeq(text, 1, Len(chunk)) = chunk

RECURSIVE Covers(_, _)
Covers(text, chunks) ==
    IF chunks = <<>> THEN Blank(text)
    ELSE /\ StartsWith(text, Head(chunks))
         /\ \E k \in Len(Head(chunks))..Len(text) :
               /\ Blank(SubSeq(text, Len(Head(chunks)) + 1, k))
               /\ Covers(SubSeq(text, k + 1, Len(text)), Tail(chunks))

C24_NoContentLost ==
    sm.pc = "returned" =>
        IF Len(sm.text) <= sm.maxLen
        THEN sm.chunks = <<sm.text>>
        ELSE Covers(sm.text, sm.chunks)

RECURSIVE Concat(_)
Concat(chunks) == IF chunks = <<>> THEN <<>> ELSE Head(chunks) \o Concat(Tail(chunks))

\* A longer text of which whitespace between two chunks was left out
C24_Witness ==
    /\ sm.pc = "returned"
    /\ Len(sm.text) > sm.maxLen
    /\ Len(sm.chunks) >= 2
    /\ Len(Concat(sm.chunks)) < Len(sm.text)
    /\ sm.text[Len(sm.text)] = "b"

\* ------------------------------------------------------------------
\* The CLI invocations of a run, in order, and what they carried
CliCalls(att) == SelectSeq(att, LAMBDA e : e.op = "cli")
CliMsgs(att) == [i \in DOMAIN CliCalls(att) |-> CliCalls(att)[i].arg.message]
Lengths(texts) == [i \in DOMAIN texts |-> Len(texts[i])]
IsPrefix(p, q) == Len(p) <= Len(q) /\ SubSeq(q, 1, Len(p)) = p
HasAccount(entry) ==
    "accountId" \in DOMAIN entry.fields /\ Len(entry.fields.accountId) > 0

\* The text a run hands to the chunking: the summary after a publish that
\* succeeded, else the message of the entry
ToSend(entry, att) ==
    IF Results(att, "ok", "publish") # {}
    THEN buildTelegramSummary(extractTitle(entry.fields.message), entry.fields.message,
                              PublicUrl)
    ELSE entry.fields.message

\* C25: the chunks of a message go out by one CLI invocation per chunk, in
\* chunk order, each started only after the one before succeeded, each with
\* the channel and the target of the entry and with --account exactly when
\* the entry has an accountId; a message of two full chunks and a rest,
\* without line break and without publisher, gives three invocations of
\* lengths MAX_MSG_LEN, MAX_MSG_LEN and the rest, then one acknowledgement.
InOrder(entry, att) ==
    /\ \A c \in Ops(att, "cli") :
          /\ att[c].arg.channel = entry.fields.channel
          /\ att[c].arg.target = entry.fields.to
          /\ att[c].arg.account =
                (IF HasAccount(entry) THEN <<entry.fields.accountId>> ELSE <<>>)
          /\ (\E b \in Ops(att, "cli") : b < c) => (c - 1) \in Results(att, "ok", "cli")
    /\ Ops(att, "cli") # {} =>
          IsPrefix(CliMsgs(att), splitMessage(ToSend(entry, att), MAX_MSG_LEN))
    /\ AllChunksSent(att) /\ Count(att, "xack") >= 1 =>
          CliMsgs(att) = splitMessage(ToSend(entry, att), MAX_MSG_LEN)

C25_ChunksInOrder ==
    /\ lis.cur # NoEntry => InOrder(lis.cur, lis.att)
    /\ Ended => InOrder(lis.done.entry, lis.done.att)
    /\ (Ended /\ ~publisher /\ ~Malformed(lis.done.entry)
              /\ Len(lis.done.entry.fields.message) = 2 * MAX_MSG_LEN + 2
              /\ "\n" \notin {lis.done.entry.fields.message[i] :
                                  i \in DOMAIN lis.done.entry.fields.message}
              /\ ~ReportedOver(lis.done.att) /\ AllChunksSent(lis.done.att)) =>
            /\ Lengths(CliMsgs(lis.done.att)) = <<MAX_MSG_LEN, MAX_MSG_LEN, 2>>
            /\ Count(lis.done.att, "publish") = 0
            /\ Count(lis.done.att, "xack") = 1
            /\ \A x \in Ops(lis.done.att, "xack") :
                  \A c \in Ops(lis.done.att, "cli") : c < x

\* Without publisher the long message with an accountId went out in three
\* chunks with --account and was acknowledged
C25_Witness ==
    /\ lis.done.outcome = "returned"
    /\ ~publisher
    /\ Lengths(CliMsgs(lis.done.att)) = <<MAX_MSG_LEN, MAX_MSG_LEN, 2>>
    /\ \A c \in Ops(lis.done.att, "cli") : lis.done.att[c].arg.account = <<"eff">>
    /\ Results(lis.done.att, "ok", "xack") # {}

\* ------------------------------------------------------------------
\* C26: a publish is attempted only for a message longer than
\* PUBLISH_THRESHOLD and with a publisher configured; after a publish that
\* succeeded the delivered text is the short summary ending with the public
\* link, not the original; after one that failed the original message is
\* delivered unchanged by the chunked delivery and acknowledged.
Delivered(att) == Concat(CliMsgs(att))
EndsWith(text, tail) ==
    Len(tail) <= Len(text) /\ SubSeq(text, Len(text) - Len(tail) + 1, Len(text)) = tail

Publishing(entry, att) ==
    /\ Count(att, "publish") <= 1
    /\ Count(att, "publish") = 1 =>
          Len(entry.fields.message) > PUBLISH_THRESHOLD /\ publisher
    /\ (~Malformed(entry) /\ Count(att, "cli") >= 1) =>
          (Count(att, "publish") = 1
              <=> (Len(entry.fields.message) > PUBLISH_THRESHOLD /\ publisher))

C26_PublishOrOriginal ==
    /\ lis.cur # NoEntry => Publishing(lis.cur, lis.att)
    /\ Ended => Publishing(lis.done.entry, lis.done.att)
    /\ (Ended /\ AllChunksSent(lis.done.att) /\ Count(lis.done.att, "xack") >= 1) =>
          /\ Results(lis.done.att, "ok", "publish") # {} =>
                /\ EndsWith(Delivered(lis.done.att), PublicUrl)
                /\ Delivered(lis.done.att) # lis.done.entry.fields.message
                /\ Len(Delivered(lis.done.att)) < Len(lis.done.entry.fields.message)
                /\ Count(lis.done.att, "cli") = 1
          /\ Results(lis.done.att, "ok", "publish") = {} =>
                /\ Covers(lis.done.entry.fields.message, CliMsgs(lis.done.att))
                /\ Len(lis.done.entry.fields.message) <= MAX_MSG_LEN =>
                      CliMsgs(lis.done.att) = <<lis.done.entry.fields.message>>
    /\ (Ended /\ Results(lis.done.att, "fail", "publish") # {}
              /\ AllChunksSent(lis.done.att)) =>
          /\ Count(lis.done.att, "xack") >= 1
          /\ Results(lis.done.att, "ok", "xack") # {} => lis.done.entry.id \notin pel

\* The publish failed and the original went out in its three chunks
C26_Witness ==
    /\ lis.done.outcome = "returned"
    /\ Results(lis.done.att, "fail", "publish") # {}
    /\ Delivered(lis.done.att) = lis.done.entry.fields.message
    /\ Count(lis.done.att, "cli") = 3
    /\ Results(lis.done.att, "ok", "xack") # {}

\* ------------------------------------------------------------------
\* C27: execute of the redis_bridge tool raises "message is required" for
\* a missing, empty or blank message before any broker command; otherwise
\* it sends exactly one XADD to bridge:inbound and then exactly one BRPOP on
\* the key of its correlationId with timeoutSeconds; it raises a timeout
\* error when the pop returns nothing, raises "Engine error: <error>" when
\* the response (an object, or a string that is no JSON) has an error, and
\* else returns one text block with the text of the response, the raw
\* string when it is no JSON.
BlankParam(p) == p = <<>> \/ \A i \in DOMAIN p[1].words : p[1].words[i] = " "

AlertDue == alertChatId # "" /\ now - limiter.lastAlertAt >= alertCooldownSeconds

C28_AlertSent ==
    [][ (RequestAnswered /\ LimitReached(last'.agent)) =>
            limiter'.alertCalls = limiter.alertCalls + (IF AlertDue THEN 1 ELSE 0)
      ]_vars

\* ------------------------------------------------------------------
\* C29: every blocking command (the BRPOP of the hook, the BRPOP of the
\* tool, the XREADGROUP BLOCK of the listener) is on the dedicated blocking
\* client: the normal client carries no blocking command.
C29_BlockingClientOnly ==
    /\ BlockingOn("redis") = {}
    /\ (\E h \in Slots : hooks[h].pc = "brpop") => "BRPOP (hook)" \in BlockingOn("redisBlocking")
    /\ tool.pc = "brpop" => "BRPOP (tool)" \in BlockingOn("redisBlocking")
    /\ lis.pc = "reading" => "XREADGROUP BLOCK" \in BlockingOn("redisBlocking")

\* ------------------------------------------------------------------
\* C30: under any interleaving of concurrent ensureConnected() calls at
\* most one task at a time is in the reconnect branch, the one that calls
\* connect(); a caller that finds reconnectInFlight set calls no connect()
\* and only polls; and reconnectInFlight is cleared when the reconnecting
\* task ends, ready or not.
InEnsure(h) == hooks[h].pc \in {"reconnect", "poll"}
Reconnecting == {h \in Slots : InEnsure(h) /\ hooks[h].leader}
Polling == {h \in Slots : InEnsure(h) /\ ~hooks[h].leader}
ConnectCalled == \E c \in Clients : status[c] # "connecting" /\ status'[c] = "connecting"

C30_SingleFlight ==
    [][ /\ Cardinality(Reconnecting) <= 1
        /\ reconnectInFlight <=> Reconnecting # {}
        /\ \A h \in Polling : hooks[h].pc = "poll" /\ hooks[h].conn = {}
        /\ \A h \in Slots :
              (hooks[h].pc = "idle" /\ hooks'[h].pc \in {"reconnect", "poll"}) =>
                  IF reconnectInFlight
                  THEN /\ ~hooks'[h].leader /\ hooks'[h].pc = "poll"
                       /\ ~ConnectCalled /\ status' = status
                       /\ reconnectInFlight'
                  ELSE /\ hooks'[h].leader /\ reconnectInFlight'
                       /\ Reconnecting = {}
        /\ ConnectCalled =>
              /\ ~reconnectInFlight /\ reconnectInFlight'
              /\ \E h \in Slots : hooks[h].pc = "idle" /\ hooks'[h].pc = "reconnect"
                                    /\ hooks'[h].leader
        /\ \A h \in Reconnecting :
              (hooks'[h].pc \notin {"reconnect", "poll"}) => ~reconnectInFlight'
        /\ \A h \in Polling :
              (hooks'[h].pc \notin {"reconnect", "poll"}) =>
                  reconnectInFlight' = reconnectInFlight
      ]_vars

\* One task reconnects while a second caller, which found the flag set,
\* polls for readiness
C30_Witness ==
    /\ reconnectInFlight
    /\ Cardinality(Reconnecting) = 1
    /\ Polling # {}

\* ------------------------------------------------------------------
\* C31: while running is set, an exception of the consumer-group read or
\* of the processing of an entry never ends the worker: it is caught, the
\* worker waits its backoff and eventually issues another read; the loops
\* end only once running was cleared.
ReadRejected == lis.pc = "reading" /\ lis'.pc # "reading" /\ lis'.cur = NoEntry
                    /\ lis'.done.outcome = "none" /\ outbound' = outbound /\ lis' # Listening
EntryThrew == lis'.done.outcome = "threw"

C31_WorkerSurvives ==
    /\ [][ /\ (ctl.running /\ (ReadRejected \/ EntryThrew)) => lis'.pc = "backoff"
           /\ (lis.pc # "stopped" /\ lis'.pc = "stopped") => ~ctl.running
           /\ (lis.pc = "backoff" /\ lis'.pc # "backoff" /\ ctl.running) =>
                  lis'.pc = "reading"
         ]_vars
    /\ (lis.pc = "backoff" /\ ctl.running) ~> (lis.pc = "reading" \/ ~ctl.running)

\* The XACK of a malformed entry was rejected: processEntry threw and the
\* worker, still running, waits its backoff
C31_Witness ==
    /\ lis.done.outcome = "threw"
    /\ lis.pc = "backoff"
    /\ ctl.running

\* ------------------------------------------------------------------
\* C34: an execution of the redis_bridge tool never changes the circuit
\* breaker, never consults or charges the rate limiter and never triggers
\* the reconnect guard, whatever its outcome (text, timeout, engine error,
\* broker exception); an open breaker does not stop it.
ToolStep == tool' # tool \/ toolLast'.kind # "none"

C34_ToolLeavesGuards ==
    [][ ToolStep =>
            /\ breaker' = breaker
            /\ limiter' = limiter /\ recorded' = recorded
            /\ reconnectInFlight' = reconnectInFlight /\ status' = status
            /\ (toolLast'.kind # "none" /\ tool.pc = "brpop") =>
                  /\ toolLast'.kind \in {"content", "throw"}
                  /\ toolLast'.sent = 1 /\ toolLast'.popped = 1
      ]_vars

\* The tool returned the text of the engine while the breaker was open
C34_Witness ==
    /\ toolLast.kind = "content"
    /\ isOpen(breaker, now)
    /\ breaker.failures >= threshold

\* ------------------------------------------------------------------
\* C35: a bridged request that is no heartbeat and that the limiter lets
\* pass is recorded exactly once, when it starts and whatever the breaker
\* says: also when it is then fast-failed, fails on reconnect, times out,
\* gets an engine error or hits an exception it has taken one unit of the
\* agent's and of the global quota; denied requests, heartbeats and
\* requests of agents that are not bridged are never recorded.
Charged(a, b) == Bridged(a) /\ b.str /\ ~HeartbeatBody(b) /\ ~LimitReached(a)

\* The step begins a run of the hook: it suspends at its first await, or
\* returns in the same step
Suspends(h) == hooks[h].pc = "idle" /\ hooks'[h].pc # "idle"
ReturnsAtOnce == last'.kind = "return" /\ hooks' = hooks
Begins == ReturnsAtOnce \/ \E h \in Slots : Suspends(h)

ChargedOne(a) ==
    /\ limiter'.globalWindow = Append(Kept(limiter.globalWindow), now)
    /\ limiter'.agentWindows[a] = Append(Kept(limiter.agentWindows[a]), now)
    /\ recorded' = [recorded EXCEPT ![a] = Append(@, now)]

ChargedNone ==
    /\ recorded' = recorded
    /\ Len(limiter'.globalWindow) <= Len(limiter.globalWindow)
    /\ \A x \in AgentIds : Len(limiter'.agentWindows[x]) <= Len(limiter.agentWindows[x])

\* C35: every run of the hook that passes the limiter check appends one
\* timestamp to the global and to the agent's window in its first step,
\* before the breaker is asked; no other run and no other step appends.
C35_RecordedOnce ==
    [][ /\ \A h \in Slots :
              Suspends(h) =>
                  /\ Charged(hooks'[h].agent, hooks'[h].body)
                  /\ ChargedOne(hooks'[h].agent)
        /\ ReturnsAtOnce =>
              IF Bridged(last'.agent) /\ Charged(last'.agent, last'.body)
              THEN ChargedOne(last'.agent)
              ELSE ChargedNone
        /\ ~Begins =>
              /\ \A x \in AgentIds : Len(recorded'[x]) <= Len(recorded[x])
              /\ limiter'.globalWindow = limiter.globalWindow
              /\ limiter'.agentWindows = limiter.agentWindows
      ]_vars

\* A request fast-failed by the open breaker has taken its unit of quota
C35_Witness ==
    /\ last.kind = "return"
    /\ last.reply = UnavailableReply
    /\ limiter.globalWindow # <<>>
    /\ limiter.globalWindow[Len(limiter.globalWindow)] = now
    /\ limiter.agentWindows[last.agent] # <<>>
    /\ limiter.agentWindows[last.agent][Len(limiter.agentWindows[last.agent])] = now
    /\ recorded[last.agent][Len(recorded[last.agent])] = now

\* ------------------------------------------------------------------
\* The pending inspection of the run threw or returned no detail
Uninspected(att) ==
    \E i \in Ops(att, "reply") : att[i].arg.kind \in {"throw", "empty"}

\* The pending inspection of the run reported a count within the cap
WithinCap(att) ==
    \E i \in Ops(att, "reply") :
        att[i].arg.kind = "detail" /\ att[i].arg.count <= DEAD_LETTER_MAX_RETRIES

\* What the runs of well-formed entries do after a pending inspection
\* within the cap: all of them start the delivery
BestEffort(att) ==
    /\ \A i \in Ops(att, "reply") :
          i < Len(att) => att[i + 1] = Did("info", "Delivering")
    /\ Logged(att, "error", "Dead-lettering") = {}
    /\ \A i \in Logged(att, "error", "Failed to deliver") :
          i > 1 /\ att[i - 1].op = "fail" /\ att[i - 1].arg \in {"cli", "xack"}

\* C36: when the pending inspection of an entry throws or returns no
\* detail, the worker goes on to deliver the entry as it does for a count
\* within the cap: the same next step, no dead-lettering, no delivery
\* failure logged for the inspection, and the error does not leave
\* processEntry.
C36_InspectionBestEffort ==
    /\ (lis.cur # NoEntry /\ Uninspected(lis.att)) =>
            /\ lis.pc \in {"import", "publish", "cli", "ack"}
            /\ BestEffort(lis.att)
    /\ (Ended /\ Uninspected(lis.done.att)) =>
            /\ BestEffort(lis.done.att)
            /\ lis.done.outcome = "returned"
            /\ Count(lis.done.att, "cli") >= 1
    /\ (lis.cur # NoEntry /\ WithinCap(lis.att)) =>
            /\ lis.pc \in {"import", "publish", "cli", "ack"}
            /\ BestEffort(lis.att)

\* An entry whose pending inspection threw was delivered and acknowledged
C36_Witness ==
    /\ lis.done.outcome = "returned"
    /\ \E i \in Ops(lis.done.att, "reply") : lis.done.att[i].arg.kind = "throw"
    /\ Results(lis.done.att, "ok", "cli") # {}
    /\ Results(lis.done.att, "ok", "xack") # {}
    /\ Logged(lis.done.att, "error", "Failed to deliver") = {}
    /\ lis.done.entry.id \notin pel

\* ------------------------------------------------------------------
\* The run of processEntry on the current entry ends in this step
EndsEntry == lis.cur # NoEntry /\ lis'.done.outcome # "none"

\* C38: while the listener is running, the entries of a fetched batch are
\* handed to processEntry one after the other in batch order: when the run
\* on one entry ends, however it ends, the next entry of the batch is
\* started, and a batch that was read starts with its first entry.
C38_BatchInOrder ==
    [][ /\ (ctl.running /\ ctl'.running /\ EndsEntry /\ lis.batch # <<>>) =>
              /\ lis'.cur = Head(lis.batch)
              /\ lis'.batch = Tail(lis.batch)
        /\ (ctl.running /\ ctl'.running /\ lis.pc = "reading"
                       /\ Len(outbound') < Len(outbound)) =>
              /\ lis'.cur = Head(outbound)
              /\ <<lis'.cur>> \o lis'.batch = SubSeq(outbound, 1, Len(outbound) - Len(outbound'))
      ]_vars

\* ------------------------------------------------------------------
\* The entries of bridge:inbound that carry correlationId c
Asking(c) == {i \in DOMAIN inbound : inbound[i].correlationId = c}

\* Every rendezvous key belongs to at most one invocation, and what is or
\* will be pushed to it answers that invocation's one request
OwnKeys ==
    /\ \A h \in Slots, j \in Slots :
          (h # j /\ hooks[h].pc # "idle") => hooks[h].cid # hooks[j].cid
    /\ \A h \in Slots :
          (hooks[h].pc \in {"reconnect", "poll", "xadd"} /\ hooks[h].cid \in Cids) =>
              /\ responses[hooks[h].cid] = <<>>
              /\ Asking(hooks[h].cid) = {}
    /\ \A c \in Cids :
          /\ Len(responses[c]) + Cardinality(Asking(c)) <= 1
          /\ \A i \in DOMAIN responses[c] : responses[c][i] = c

\* A value leaves the rendezvous key of c in this step
Popped(c) == Len(responses'[c]) < Len(responses[c])

\* C39: a hook invocation returns only a value pushed to the rendezvous
\* key of its own correlationId: a value leaves a key only in the step in
\* which the one invocation blocked on that key returns, no other
\* invocation returns in that step, a reply taken from the engine comes
\* from such a pop, and no key is shared between invocations, also when a
\* response arrives after its request timed out.
C39_OwnResponseOnly ==
    [][ /\ OwnKeys'
        /\ \A c \in Cids :
              Popped(c) =>
                  /\ Len(responses'[c]) = Len(responses[c]) - 1
                  /\ \A d \in Cids \ {c} : responses'[d] = responses[d]
                  /\ last'.kind = "return"
                  /\ \E h \in Slots :
                        /\ hooks[h].pc = "brpop" /\ hooks[h].cid = c
                        /\ hooks'[h].pc = "idle"
                        /\ \A j \in Slots \ {h} : hooks'[j].pc = hooks[j].pc
        /\ (last'.kind = "return" /\ last'.op = "success") => \E c \in Cids : Popped(c)
      ]_vars

\* A request got the text pushed for it while the response to an earlier
\* request, which had timed out, lies unread on its own key
C39_Witness ==
    /\ last.kind = "return"
    /\ last.op = "success"
    /\ \E c \in Cids :
          /\ responses[c] = <<c>>
          /\ \A h \in Slots : hooks[h].cid # c

\* ------------------------------------------------------------------
\* C40: concurrent requests are independent: an invocation blocked in its
\* pop whose response lies on its rendezvous key can return that reply at
\* once, whatever pop another invocation issued earlier on the same client
\* is still waiting for (a pop whose own response has not been pushed).
C40_Independent ==
    \A h \in Slots :
        (/\ hooks[h].pc = "brpop" /\ responses[hooks[h].cid] # <<>>
         /\ \A j \in Slots \ {h} :
               hooks[j].pc = "brpop" => responses[hooks[j].cid] = <<>>) =>
            ENABLED (\E raw \in RawValues : BrpopValue(h, raw))

\* ------------------------------------------------------------------
\* The start() calls of the listener and the poll loops
Calls == DOMAIN svc.starts
Tolerated == {"OK", "BUSYGROUP"}

\* What holds of every start() call at any time
GroupFirst ==
    /\ \A i \in Calls :
          LET c == svc.starts[i] IN
          /\ c.sent.cmd = "XGROUP CREATE" /\ c.sent.id = "0" /\ c.sent.mkstream
          /\ c.group = "ERR" => (c.pc = "rejected" /\ c.loop = 0)
          /\ c.group \in Tolerated => c.pc \in {"cli", "resolved"}
          /\ c.pc = "resolved" <=> c.loop \in DOMAIN svc.loops
          /\ c.loop # 0 => c.group \in Tolerated
    /\ Len(svc.loops) = Cardinality({i \in Calls : svc.starts[i].pc = "resolved"})
    /\ (svc.read \/ \E k \in DOMAIN svc.loops : svc.loops[k].pc = "reading") =>
          \E i \in Calls : svc.starts[i].group \in Tolerated

\* C32: start() of the listener sends XGROUP CREATE with offset 0 and
\* MKSTREAM and no XREADGROUP is issued before a group creation has
\* settled; when the creation answers OK or BUSYGROUP, start() goes on and
\* calls the poll loop, which issues its first read if the listener is
\* still running; when it fails with any other error, start() rejects and
\* that call starts no poll loop.
C32_GroupBeforeRead ==
    [][ /\ GroupFirst'
        /\ \A i \in Calls :
              (svc.starts[i].pc = "cli" /\ svc'.starts[i].pc = "resolved") =>
                  /\ Len(svc'.loops) = Len(svc.loops) + 1
                  /\ svc'.loops[Len(svc'.loops)].pc =
                        IF ctl.running THEN "reading" ELSE "exited"
        /\ \A i \in Calls :
              svc.starts[i].pc = "rejected" =>
                  (svc'.starts[i] = svc.starts[i] /\ svc.starts[i].loop = 0)
      ]_vars

\* The group existed already: start() resolved and its loop is reading,
\* while another start() call was rejected with another error and has no loop
C32_Witness ==
    \E i \in Calls, j \in Calls :
        /\ svc.starts[i].group = "BUSYGROUP"
        /\ svc.starts[i].pc = "resolved"
        /\ svc.loops[svc.starts[i].loop].pc = "reading"
        /\ svc.starts[j].group = "ERR"
        /\ svc.starts[j].pc = "rejected"
        /\ Len(svc.loops) = 1

\* ------------------------------------------------------------------
\* The listener was started: start() was called on it
ListenerStarted == svc.starts # <<>> \/ svc.loops # <<>> \/ ctl.running \/ svc.read

\* C33: start of the service calls start() of the listener only after both
\* clients have been ready (each waitForReady resolved); once start of the
\* service has failed, on a rejected connect(), a startup timeout or an
\* error event of a client that is not ready, the listener is not started,
\* whatever the clients do afterwards.
C33_StartAfterReady ==
    [][ /\ ListenerStarted' => \A c \in Clients : svc'.waits[c] = "ok"
        /\ (svc.boot = "waiting" /\ svc'.boot # "waiting") =>
              \/ svc'.boot = "listener" /\ \A c \in Clients : svc'.waits[c] = "ok"
              \/ svc'.boot = "failed" /\ ~ListenerStarted'
        /\ (svc.boot = "failed" /\ ~ListenerStarted) =>
              (svc'.boot = "failed" /\ ~ListenerStarted')
      ]_vars

\* The start of the service failed while redis was not ready; redis became
\* ready afterwards and the listener is still not started
C33_Witness ==
    /\ svc.boot = "failed"
    /\ svc.waits["redis"] = "pending"
    /\ svc.waits["redisBlocking"] = "ok"
    /\ status["redis"] = "ready"
    /\ ~ListenerStarted

\* ------------------------------------------------------------------
\* The poll loops of the listener that have an XREADGROUP in flight
Reading == {k \in DOMAIN svc.loops : svc.loops[k].pc = "reading"}

\* C37: over any sequence of start() and stop() calls on one listener, at
\* no time do two of its poll loops both have a consumer-group read in
\* flight.
C37_OneLoop == Cardinality(Reading) <= 1
====
